---- MODULE Spec2Model ----
(***************************************************************************)
(* Model of the MARC21 toolkit: the resumable download manager             *)
(* (DownloadManager, downloader.ts) and the streaming record scanner and   *)
(* category counter (Marc21Parser, parser.ts), as state machines.          *)
(*                                                                         *)
(* JavaScript runs one synchronous block at a time: an action of this      *)
(* model is the code that runs between two awaits.  The environment        *)
(* (HTTP servers, the file system, the operator stopping the process)      *)
(* supplies the nondeterminism.                                            *)
(***************************************************************************)
EXTENDS Integers, Sequences, FiniteSets, TLC

\* ------------------------------------------------------------------ bounds
MaxRuns == 2          \* invocations of startDownload (stop / restart)
MaxFiles == 2         \* JSON files found in the input folder by one run
MaxRecords == 1       \* matchingRecords in one JSON file
MaxConcurrency == 1   \* largest --concurrency value given
MaxHops == 1          \* longest redirect chain a server answers with
MaxPieces == 5        \* pieces (markers, text) of a scanned XML file
MaxChunk == 8         \* largest chunk the read stream delivers
MaxFragments == 2     \* record fragments of a file whose categories are counted
MaxFields == 2        \* data fields of one record
MaxParses == 2        \* calls of parseFile on one parser instance
MaxMinCount == 3      \* largest --min-count value given
MaxCategories == 2    \* category definitions of a bulk extraction
MaxCount == 1         \* largest count a category definition gives

\* ------------------------------------------------------- program constants
DefaultConcurrency == 5
maxRedirects == 10

\* ------------------------------------------------------------ value spaces
Digits == {"0", "1", "2", "3", "4", "5", "6", "7", "8", "9"}
Lower == {"a", "b", "c", "d", "e", "f", "g", "h", "i", "j", "k", "l", "m",
          "n", "o", "p", "q", "r", "s", "t", "u", "v", "w", "x", "y", "z"}
Upper == {"A", "B", "C", "D", "E", "F", "G", "H", "I", "J", "K", "L", "M",
          "N", "O", "P", "Q", "R", "S", "T", "U", "V", "W", "X", "Y", "Z"}

\* isbn.replace(/[^a-zA-Z0-9]/g, '') over strings as sequences of characters
sanitizeISBN(isbn) == SelectSeq(isbn, LAMBDA c : c \in Digits \cup Lower \cup Upper)

\* ISBN values met in result files; <<>> stands for null and for '' (both falsy)
RawIsbns == { <<>>, <<"1">>, <<"1", "-">>, <<"2">> }
\* The keys an index can have
AllKeys == { sanitizeISBN(i) : i \in RawIsbns \ {<<>>} }

RECURSIVE SeqsUpTo(_, _)
SeqsUpTo(S, n) ==
    IF n = 0 THEN { <<>> }
    ELSE LET shorter == SeqsUpTo(S, n - 1)
         IN  shorter \cup { Append(s, x) : s \in shorter, x \in S }

\* A JSON file of the input folder: unparsable, or an ExtractResults object
JsonFiles(records) ==
    { [ok |-> FALSE, matchingRecords |-> <<>>] } \cup
    { [ok |-> TRUE, matchingRecords |-> rs] : rs \in SeqsUpTo(records, MaxRecords) }

NoPath == <<>>
Undefined == "undefined"
FilePathOf(isbn) == <<"dest", "/">> \o isbn \o <<".pdf">>

EmptyIndex == [keys |-> <<>>, ent |-> <<>>]
Has(idx, isbn) == isbn \in DOMAIN idx.ent
StateOf(idx, k) == idx.ent[k].downloadState

NewEntry(record) ==
    [record |-> record, downloadState |-> "pending", filePath |-> NoPath,
     errorMessage |-> Undefined, downloadedAt |-> Undefined]

\* ------------------------------------------------------------ the index
\* processJsonFile, body of the loop over matchingRecords
MergeResetsState(idx, record) ==
    IF record.ISBN # <<>> /\ record.bookUrl # ""
    THEN LET isbn == sanitizeISBN(record.ISBN)
         IN  IF ~Has(idx, isbn)
             THEN [keys |-> Append(idx.keys, isbn),
                   ent |-> idx.ent @@ (isbn :> NewEntry(record))]
             ELSE [idx EXCEPT !.ent[isbn] = NewEntry(record)]
    ELSE idx

Merge(idx, record) ==
    IF record.ISBN # <<>> /\ record.bookUrl # ""
    THEN LET isbn == sanitizeISBN(record.ISBN)
         IN  IF ~Has(idx, isbn)
             THEN [keys |-> Append(idx.keys, isbn),
                   ent |-> idx.ent @@ (isbn :> NewEntry(record))]
             ELSE [idx EXCEPT !.ent[isbn].record = record]
    ELSE idx

RECURSIVE MergeAll(_, _)
MergeAll(idx, records) ==
    IF records = <<>> THEN idx
    ELSE MergeAll(Merge(idx, Head(records)), Tail(records))

\* processJsonFile: a file that fails to parse is logged and skipped
processJsonFile(idx, file) ==
    IF file.ok THEN MergeAll(idx, file.matchingRecords) ELSE idx

\* loadOrCreateIndex: which states are reset to pending
IsTransientOnlyDownloading(state) == state = "downloading"

IsTransient(state) == state = "downloading" \/ state = "error"

ResetEntry(e) ==
    IF IsTransient(e.downloadState)
    THEN [e EXCEPT !.downloadState = "pending", !.errorMessage = Undefined]
    ELSE e

\* The index file: absent, unparsable, or the JSON of an index
AbsentFile == [status |-> "absent", data |-> EmptyIndex]
CorruptFile == [status |-> "corrupt", data |-> EmptyIndex]
JsonOf(idx) == [status |-> "ok", data |-> idx]

loadOrCreateIndex(file) ==
    IF file.status = "ok"
    THEN [keys |-> file.data.keys,
          ent |-> [k \in DOMAIN file.data.ent |-> ResetEntry(file.data.ent[k])]]
    ELSE EmptyIndex


\* ------------------------------------------------------- the file system
\* A destination file: absent; created (opened by createWriteStream, no byte
\* written yet); zero (the complete body of a response without content);
\* partial (some bytes of a body); complete (a whole, non-empty body).
DiskStates == {"absent", "created", "zero", "partial", "complete"}
existsSync(f) == f # "absent"
SizeOf(f) == CASE f = "partial" -> 1 [] f = "complete" -> 2 [] OTHER -> 0
HoldsFullBody(f) == f \in {"zero", "complete"}

\* ------------------------------------------------------------- variables
VARIABLES
    scenario,          \* the environment of this behaviour (fixed by Init)
    mainPc,            \* where startDownload is
    concurrency,       \* this.options.concurrency after the constructor
    index,             \* this.index
    downloadQueue,     \* this.downloadQueue
    currentDownloads,  \* this.currentDownloads
    workers,           \* the processDownloadQueue() calls in flight
    mainContent,       \* the JSON processInputFolder's saveIndex is writing
    filesLeft,         \* JSON files of the input folder not yet processed
    disk,              \* destination folder: <isbn>.pdf for every key
    indexFile,         \* destination folder: index.json
    runs,              \* invocations started so far
    lastFile,          \* history: the JSON file processed by the last step
    atLoad,            \* history: the index as loaded and the disk then
    hist               \* history: per key, what this run did with it

\* Marc21Parser and the read stream of processXmlFile
VARIABLES
    parserPc,          \* where parseFile is
    stream,            \* the text of the file the stream has not delivered yet
    buffer,            \* processXmlFile: buffer
    recordCount,       \* processXmlFile: recordCount
    subjectTerms,      \* this.subjectTerms
    keywords,          \* this.keywords
    totalRecords,      \* this.totalRecords
    dispatched,        \* history: the fragments given to processRecord, in order
    results            \* history: what each call of parseFile returned or threw

\* extractRecords and bulkExtractRecords
VARIABLES
    matchingRecords,   \* extractRecords: matchingRecords
    categoryBuckets,   \* extractAllCategoriesInSinglePass: categoryBuckets
    categoryIndex,     \* bulkExtractRecords: i, the category being written (from 1)
    outputs,           \* destination folder: the content of each file written
    fileResults,       \* bulkExtractRecords: fileResults
    bulkResults,       \* history: what bulkExtractRecords returned or threw
    extracted,         \* history: what each call of extractRecords returned or threw
    calls              \* history: the records tested against a category, in order

ExtractVars == <<matchingRecords, categoryBuckets, categoryIndex, outputs, fileResults,
                 bulkResults, extracted, calls>>

ParserVars == <<parserPc, stream, buffer, recordCount, subjectTerms, keywords,
                totalRecords, dispatched, results, ExtractVars>>

DownloadVars == <<mainPc, concurrency, index, downloadQueue, currentDownloads, workers,
                  mainContent, filesLeft, disk, indexFile, runs, lastFile,
                  atLoad, hist>>

vars == <<scenario, DownloadVars, ParserVars>>

Workers == 1 .. Cardinality(AllKeys)
NoIsbn == <<"(none)">>
IdleWorker == [pc |-> "idle", isbn |-> NoIsbn, content |-> EmptyIndex,
               redirectCount |-> 0, overlap |-> FALSE]
NoHist == [queued |-> 0, inPass |-> FALSE, deq |-> 0, marked |-> 0, http |-> 0]
NoFile == [ok |-> FALSE, matchingRecords |-> <<>>]

SavePcs == {"saveClaim", "saveResult"}
Saving(wk) == { w \in DOMAIN wk : wk[w].pc \in SavePcs }
InFlight(wk) == { w \in DOMAIN wk : wk[w].pc \notin {"idle", "exited"} }

\* The in-memory state a synchronous block works on
Cur == [index |-> index, queue |-> downloadQueue, cur |-> currentDownloads,
        wk |-> workers, hist |-> hist]
Commit(S) ==
    /\ index' = S.index
    /\ downloadQueue' = S.queue
    /\ currentDownloads' = S.cur
    /\ workers' = S.wk
    /\ hist' = S.hist

\* ------------------------------------------------------------ the workers
\* saveIndex up to its await: the index is serialised now, written later.
\* A write begun while another is in progress overlaps with it.
saveIndex(S, w, pc) ==
    LET others == Saving(S.wk) \ {w}
    IN  [S EXCEPT !.wk = [v \in DOMAIN S.wk |->
            IF v = w
            THEN [S.wk[v] EXCEPT !.pc = pc, !.content = S.index,
                                 !.overlap = (others # {})]
            ELSE IF v \in others THEN [S.wk[v] EXCEPT !.overlap = TRUE]
            ELSE S.wk[v]]]

Success(isbn) == [success |-> TRUE, filePath |-> FilePathOf(isbn), errorMessage |-> Undefined]
Failure(msg) == [success |-> FALSE, filePath |-> NoPath, errorMessage |-> msg]

\* updateIndexEntry, up to the await of its saveIndex
ApplyResult(e, result) ==
    IF result.success
    THEN [e EXCEPT !.downloadState = "done", !.filePath = result.filePath,
                   !.downloadedAt = "timestamp", !.errorMessage = Undefined]
    ELSE [e EXCEPT !.downloadState = "error", !.errorMessage = result.errorMessage]

updateIndexEntry(S, w, isbn, result) ==
    LET S1 == IF Has(S.index, isbn)
              THEN [S EXCEPT !.index.ent[isbn] = ApplyResult(@, result)]
              ELSE S
    IN  saveIndex(S1, w, "saveResult")

\* downloadWithRedirects: the test on the number of redirects followed
TooManyRedirectsAtLimit(redirectCount) == redirectCount >= maxRedirects

TooManyRedirects(redirectCount) == redirectCount > maxRedirects

\* downloadWithRedirects up to the HTTP request it issues
downloadWithRedirects(S, w, isbn, urlString, redirectCount) ==
    LET S1 == [S EXCEPT !.wk[w].redirectCount = redirectCount]
    IN  IF TooManyRedirects(redirectCount)
        THEN updateIndexEntry(S1, w, isbn, Failure("Too many redirects (maximum 10)"))
        ELSE IF urlString = "bad"
        THEN updateIndexEntry(S1, w, isbn, Failure("Download error: Invalid URL"))
        ELSE [S1 EXCEPT !.wk[w].pc = "http", !.hist[isbn].http = @ + 1]

\* downloadFile: "Update state to downloading" and the save that follows
MarkDownloadingUnsaved(S, w, isbn) ==
    downloadWithRedirects([S EXCEPT !.index.ent[isbn].downloadState = "downloading",
                                    !.hist[isbn].marked = @ + 1],
                          w, isbn, S.index.ent[isbn].record.bookUrl, 0)

MarkDownloading(S, w, isbn) ==
    saveIndex([S EXCEPT !.index.ent[isbn].downloadState = "downloading",
                        !.hist[isbn].marked = @ + 1],
              w, "saveClaim")

\* downloadFile: the size test on a file that exists
AlreadyDownloadedNever(size) == FALSE

AlreadyDownloaded(size) == size > 0

\* downloadFile up to its first await
downloadFile(S, w, isbn) ==
    IF ~Has(S.index, isbn) \/ S.index.ent[isbn].record.bookUrl = ""
    THEN updateIndexEntry(S, w, isbn, Failure("No download URL available"))
    ELSE IF existsSync(disk[isbn])
    THEN [S EXCEPT !.wk[w].pc = "stat"]
    ELSE MarkDownloading(S, w, isbn)

\* this.downloadQueue.shift(): what is left in the queue
ShiftLeavesHead(queue) == queue

AfterShift(queue) == Tail(queue)

\* processDownloadQueue from the head of its loop to the first await
processDownloadQueue(S, w) ==
    IF Len(S.queue) > 0
    THEN LET isbn == Head(S.queue)
             S1 == [S EXCEPT !.queue = AfterShift(S.queue),
                             !.cur = @ + 1,
                             !.wk[w].isbn = isbn,
                             !.hist[isbn].deq = @ + 1]
         IN  downloadFile(S1, w, isbn)
    ELSE [S EXCEPT !.wk[w] = [IdleWorker EXCEPT !.pc = "exited"]]

\* processDownloadQueue after updateIndexEntry: count down, loop
NextIterationStopsOnError(S, w) ==
    IF StateOf(S.index, S.wk[w].isbn) = "error"
    THEN [S EXCEPT !.cur = @ - 1, !.wk[w] = [IdleWorker EXCEPT !.pc = "exited"]]
    ELSE processDownloadQueue([S EXCEPT !.cur = @ - 1, !.wk[w] = IdleWorker], w)

NextIteration(S, w) ==
    processDownloadQueue([S EXCEPT !.cur = @ - 1, !.wk[w] = IdleWorker], w)


\* What index.json holds once a writeFile of `content` has returned: the
\* content; or, had another write been in progress meanwhile, possibly a mix
\* of both that does not parse
WriteDone(content, overlap) ==
    { JsonOf(content) } \cup (IF overlap THEN { CorruptFile } ELSE {})

SaveEnded(w) == [Cur EXCEPT !.wk[w].content = EmptyIndex, !.wk[w].overlap = FALSE]

EnvUnchanged == UNCHANGED <<ParserVars, scenario, mainPc, concurrency, mainContent, filesLeft, runs,
                            lastFile, atLoad>>

\* ----------------------------------------------------------- startDownload
\* bookUrl values: "" (none), "u" a well-formed URL, "bad" a string that
\* new URL() rejects.
\* One invocation: every --concurrency value (0: not given), up to two
\* workers, well-formed and malformed URLs
SingleRun ==
    [runs |-> 1, concurrency |-> 0 .. MaxConcurrency, hops |-> MaxHops,
     records |-> [ISBN : {<<"1">>, <<"2">>}, bookUrl : {"u", "bad"}]]

\* The tool stopped and started again, one worker, every shape of ISBN
StopAndResume ==
    [runs |-> MaxRuns, concurrency |-> {1}, hops |-> MaxHops,
     records |-> [ISBN : RawIsbns, bookUrl : {"", "u"}]]

\* One download through servers that answer with redirect chains long
\* enough to pass the limit of downloadWithRedirects
RedirectChains ==
    [runs |-> 1, concurrency |-> {1}, hops |-> maxRedirects + MaxHops,
     records |-> [ISBN : {<<"1">>}, bookUrl : {"u"}]]

InitState ==
    /\ mainPc = "stopped"
    /\ concurrency = DefaultConcurrency
    /\ index = EmptyIndex
    /\ downloadQueue = <<>>
    /\ currentDownloads = 0
    /\ workers = [w \in Workers |-> IdleWorker]
    /\ mainContent = EmptyIndex
    /\ filesLeft = 0
    /\ disk = [k \in AllKeys |-> "absent"]
    /\ indexFile = AbsentFile
    /\ runs = 0
    /\ lastFile = NoFile
    /\ atLoad = [index |-> EmptyIndex, disk |-> [k \in AllKeys |-> "absent"]]
    /\ hist = [k \in AllKeys |-> NoHist]
    /\ parserPc = "idle"
    /\ stream = <<>>
    /\ buffer = <<>>
    /\ recordCount = 0
    /\ subjectTerms = <<>>
    /\ keywords = <<>>
    /\ totalRecords = 0
    /\ dispatched = <<>>
    /\ results = <<>>
    /\ matchingRecords = <<>>
    /\ categoryBuckets = <<>>
    /\ categoryIndex = 0
    /\ outputs = <<>>
    /\ fileResults = <<>>
    /\ bulkResults = <<>>
    /\ extracted = <<>>
    /\ calls = <<>>

\* new DownloadManager(options); startDownload() up to ensureDestinationFolder
Start ==
    /\ mainPc = "stopped"
    /\ runs < scenario.runs
    /\ runs' = runs + 1
    /\ \E c \in scenario.concurrency :
          concurrency' = IF c = 0 THEN DefaultConcurrency ELSE c
    /\ mainPc' = "mkdir"
    /\ UNCHANGED <<ParserVars, scenario, index, downloadQueue, currentDownloads, workers,
                   mainContent, filesLeft, disk, indexFile, lastFile,
                   atLoad, hist>>

EnsureDestinationFolder ==
    /\ mainPc = "mkdir"
    /\ mainPc' = "load"
    /\ UNCHANGED <<ParserVars, scenario, concurrency, index, downloadQueue, currentDownloads, workers,
                   mainContent, filesLeft, disk, indexFile, runs, lastFile, atLoad, hist>>

\* mkdir or readdir throws, or the folder holds no JSON file: startDownload throws
StartupFails ==
    /\ mainPc \in {"mkdir", "readdir"}
    /\ mainPc' = "failed"
    /\ UNCHANGED <<ParserVars, scenario, concurrency, index, downloadQueue, currentDownloads, workers,
                   mainContent, filesLeft, disk, indexFile, runs, lastFile, atLoad, hist>>

LoadOrCreateIndex ==
    /\ mainPc = "load"
    /\ index' = loadOrCreateIndex(indexFile)
    /\ atLoad' = [index |-> index', disk |-> disk]
    /\ mainPc' = "readdir"
    /\ UNCHANGED <<ParserVars, scenario, concurrency, downloadQueue, currentDownloads, workers,
                   mainContent, filesLeft, disk, indexFile, runs, lastFile, hist>>

\* processInputFolder: readdir, filter on the .json extension
ReadInputFolder ==
    /\ mainPc = "readdir"
    /\ \E n \in 1 .. MaxFiles : filesLeft' = n
    /\ mainPc' = "ingest"
    /\ UNCHANGED <<ParserVars, scenario, concurrency, index, downloadQueue, currentDownloads, workers,
                   mainContent, disk, indexFile, runs, lastFile,
                   atLoad, hist>>

\* processInputFolder: one turn of the loop over the files; after the last
\* one, saveIndex up to its await
ProcessJsonFile ==
    /\ mainPc = "ingest"
    /\ filesLeft > 0
    /\ \E f \in JsonFiles(scenario.records) :
          /\ index' = processJsonFile(index, f)
          /\ lastFile' = f
    /\ filesLeft' = filesLeft - 1
    /\ IF filesLeft = 1
       THEN mainPc' = "ingestSave" /\ mainContent' = index'
       ELSE UNCHANGED <<mainPc, mainContent>>
    /\ UNCHANGED <<ParserVars, scenario, concurrency, downloadQueue, currentDownloads, workers, disk,
                   indexFile, runs, atLoad, hist>>

InputSaved ==
    /\ mainPc = "ingestSave"
    /\ indexFile' \in WriteDone(mainContent, FALSE)
    /\ mainContent' = EmptyIndex
    /\ lastFile' = NoFile
    /\ mainPc' = "exec"
    /\ UNCHANGED <<ParserVars, scenario, concurrency, index, downloadQueue, currentDownloads, workers,
                   filesLeft, disk, runs, atLoad, hist>>

\* executeDownloads: which entries are queued
IsQueuedAlsoDone(e) ==
    e.downloadState \in {"pending", "done"} /\ e.record.bookUrl # ""

IsQueued(e) == e.downloadState = "pending" /\ e.record.bookUrl # ""

Min(a, b) == IF a < b THEN a ELSE b

\* executeDownloads: how many processDownloadQueue() calls are started
InitialBatchUncapped(c, n) == n

InitialBatch(c, n) == Min(c, n)

RECURSIVE Spawn(_, _, _)
Spawn(S, w, n) ==
    IF w > n THEN S ELSE Spawn(processDownloadQueue(S, w), w + 1, n)

SeqToSet(s) == { s[i] : i \in 1 .. Len(s) }

Enqueued(S, queue) ==
    [S EXCEPT !.queue = queue,
              !.wk = [w \in Workers |-> IdleWorker],
              !.hist = [k \in AllKeys |->
                  [S.hist[k] EXCEPT !.deq = 0,
                                    !.inPass = (k \in SeqToSet(queue)),
                                    !.queued = IF k \in SeqToSet(queue) THEN @ + 1 ELSE @]]]

ExecuteDownloads ==
    /\ mainPc = "exec"
    /\ LET queue == SelectSeq(index.keys, LAMBDA k : IsQueued(index.ent[k]))
       IN  IF Len(queue) = 0
           THEN Commit(Enqueued(Cur, queue))
           ELSE Commit(Spawn(Enqueued(Cur, queue), 1, InitialBatch(concurrency, Len(queue))))
    /\ mainPc' = "mainPass"
    /\ UNCHANGED <<ParserVars, scenario, concurrency, mainContent, filesLeft, disk, indexFile, runs,
                   lastFile, atLoad>>


\* ------------------------------------------------- the workers' steps
Running == mainPc \in {"mainPass", "retry"}

\* downloadFile: stat of a file that exists has returned
StatDone(w) ==
    /\ Running
    /\ workers[w].pc = "stat"
    /\ LET isbn == workers[w].isbn
       IN  IF AlreadyDownloaded(SizeOf(disk[isbn]))
           THEN Commit(updateIndexEntry(Cur, w, isbn, Success(isbn)))
           ELSE Commit(MarkDownloading(Cur, w, isbn))
    /\ EnvUnchanged
    /\ UNCHANGED <<disk, indexFile>>

\* downloadFile: the save of the "downloading" state has returned; the request
ClaimSaved(w) ==
    /\ Running
    /\ workers[w].pc = "saveClaim"
    /\ indexFile' \in WriteDone(workers[w].content, workers[w].overlap)
    /\ LET isbn == workers[w].isbn
       IN  Commit(downloadWithRedirects(SaveEnded(w), w, isbn,
                                        index.ent[isbn].record.bookUrl, 0))
    /\ EnvUnchanged
    /\ UNCHANGED disk

\* updateIndexEntry: its save has returned; processDownloadQueue loops
ResultSaved(w) ==
    /\ Running
    /\ workers[w].pc = "saveResult"
    /\ indexFile' \in WriteDone(workers[w].content, workers[w].overlap)
    /\ Commit(NextIteration(SaveEnded(w), w))
    /\ EnvUnchanged
    /\ UNCHANGED disk

Resolve(w, result) ==
    /\ Commit(updateIndexEntry(Cur, w, workers[w].isbn, result))
    /\ EnvUnchanged
    /\ UNCHANGED <<indexFile>>

\* response with status 301, 302, 307 or 308 and a Location header
HttpRedirect(w) ==
    /\ Running
    /\ workers[w].pc = "http"
    /\ workers[w].redirectCount < scenario.hops
    /\ Commit(downloadWithRedirects(Cur, w, workers[w].isbn, "u",
                                    workers[w].redirectCount + 1))
    /\ EnvUnchanged
    /\ UNCHANGED <<disk, indexFile>>

\* redirect status with a Location that new URL(location, url) rejects: the
\* async response callback throws, its promise is rejected and nobody handles
\* it; resolve() is never called and downloadWithRedirects stays pending.
\* (Where the runtime ends the process on an unhandled rejection, Stop follows.)
HttpRedirectBadLocation(w) ==
    /\ Running
    /\ workers[w].pc = "http"
    /\ workers' = [workers EXCEPT ![w].pc = "hung"]
    /\ EnvUnchanged
    /\ UNCHANGED <<index, downloadQueue, currentDownloads, hist, disk, indexFile>>

HttpRedirectWithoutLocation(w) ==
    /\ Running
    /\ workers[w].pc = "http"
    /\ Resolve(w, Failure("HTTP 302: Redirect without location header"))
    /\ UNCHANGED disk

HttpOtherStatus(w) ==
    /\ Running
    /\ workers[w].pc = "http"
    /\ Resolve(w, Failure("HTTP 404: Not Found"))
    /\ UNCHANGED disk

\* request.on('error')
RequestError(w) ==
    /\ Running
    /\ workers[w].pc \in {"http", "open", "body"}
    /\ Resolve(w, Failure("Request error: socket hang up"))
    /\ UNCHANGED disk

\* request.on('timeout'): the socket was idle for options.timeout seconds
RequestTimeout(w) ==
    /\ Running
    /\ workers[w].pc \in {"http", "open", "body"}
    /\ Resolve(w, Failure("Request timeout"))
    /\ UNCHANGED disk

\* response with status 200: createWriteStream(filePath), response.pipe
Http200(w) ==
    /\ Running
    /\ workers[w].pc = "http"
    /\ workers' = [workers EXCEPT ![w].pc = "open"]
    /\ EnvUnchanged
    /\ UNCHANGED <<index, downloadQueue, currentDownloads, hist, disk, indexFile>>

\* the write stream has opened the file (flags 'w': created or truncated)
StreamOpened(w) ==
    /\ Running
    /\ workers[w].pc = "open"
    /\ disk' = [disk EXCEPT ![workers[w].isbn] = "created"]
    /\ workers' = [workers EXCEPT ![w].pc = "body"]
    /\ EnvUnchanged
    /\ UNCHANGED <<index, downloadQueue, currentDownloads, hist, indexFile>>

\* a first part of the body reaches the file
BodyData(w) ==
    /\ Running
    /\ workers[w].pc = "body"
    /\ disk[workers[w].isbn] = "created"
    /\ disk' = [disk EXCEPT ![workers[w].isbn] = "partial"]
    /\ EnvUnchanged
    /\ UNCHANGED <<index, downloadQueue, currentDownloads, workers, hist,
                   indexFile>>

\* writeStream.on('finish'): the whole body is in the file
BodyFinish(w) ==
    /\ Running
    /\ workers[w].pc = "body"
    /\ LET isbn == workers[w].isbn
       IN  disk' = [disk EXCEPT ![isbn] = IF disk[isbn] = "created" THEN "zero"
                                          ELSE "complete"]
    /\ Resolve(w, Success(workers[w].isbn))

\* writeStream.on('error')
WriteError(w) ==
    /\ Running
    /\ workers[w].pc \in {"open", "body"}
    /\ Resolve(w, Failure("Write error: ENOSPC"))
    /\ UNCHANGED disk

\* ------------------------------------------------------ the retry sweep
IsFailedOrDone(e) == e.downloadState \in {"error", "done"}

IsFailed(e) == e.downloadState = "error"

AllExited == \A w \in Workers : workers[w].pc \in {"idle", "exited"}

\* retryFailedDownloads, entered when Promise.all of the main pass resolves:
\* the failed entries are made pending again and become the queue
RetryFailedDownloads ==
    /\ mainPc = "mainPass"
    /\ AllExited
    /\ LET failedDownloads == SelectSeq(index.keys, LAMBDA k : IsFailed(index.ent[k]))
           reset == [Cur EXCEPT !.index.ent = [k \in DOMAIN @ |->
                        IF k \in SeqToSet(failedDownloads)
                        THEN [@[k] EXCEPT !.downloadState = "pending"]
                        ELSE @[k]]]
       IN  IF Len(failedDownloads) = 0
           THEN /\ mainPc' = "finished"
                /\ UNCHANGED <<index, downloadQueue, currentDownloads, workers, hist>>
           ELSE /\ mainPc' = "sweep"
                /\ Commit(Enqueued(reset, failedDownloads))
    /\ UNCHANGED <<ParserVars, scenario, concurrency, mainContent, filesLeft, disk, indexFile, runs,
                   lastFile, atLoad>>

\* retryFailedDownloads: its one call of processDownloadQueue (same
\* synchronous block as the reset; a step of its own so that the reset shows)
RetrySweep ==
    /\ mainPc = "sweep"
    /\ mainPc' = "retry"
    /\ Commit(processDownloadQueue(Cur, 1))
    /\ UNCHANGED <<ParserVars, scenario, concurrency, mainContent, filesLeft, disk, indexFile, runs,
                   lastFile, atLoad>>

\* where startDownload goes when retryFailedDownloads has returned
AfterRetryMainPassAgain == "mainPass"

AfterRetry == "finished"

\* the retry sweep's processDownloadQueue has returned: startDownload returns
Finish ==
    /\ mainPc = "retry"
    /\ AllExited
    /\ mainPc' = AfterRetry
    /\ UNCHANGED <<ParserVars, scenario, concurrency, index, downloadQueue, currentDownloads, workers,
                   mainContent, filesLeft, disk, indexFile, runs, lastFile, atLoad, hist>>

\* ------------------------------------------------- the process stops
\* The process exits or is killed: memory is lost, the files stay as they are.
\* A write of index.json in progress may not have begun, be half done or done.
WritesInProgress ==
    { workers[w].content : w \in Saving(workers) } \cup
    (IF mainPc = "ingestSave" THEN {mainContent} ELSE {})

Stop ==
    /\ mainPc # "stopped"
    /\ indexFile' \in {indexFile} \cup
                      (IF WritesInProgress = {} THEN {} ELSE {CorruptFile}) \cup
                      { JsonOf(c) : c \in WritesInProgress }
    /\ mainPc' = "stopped"
    /\ index' = EmptyIndex
    /\ downloadQueue' = <<>>
    /\ currentDownloads' = 0
    /\ workers' = [w \in Workers |-> IdleWorker]
    /\ mainContent' = EmptyIndex
    /\ filesLeft' = 0
    /\ lastFile' = NoFile
    /\ atLoad' = [index |-> EmptyIndex, disk |-> [k \in AllKeys |-> "absent"]]
    /\ hist' = [k \in AllKeys |-> NoHist]
    /\ UNCHANGED <<ParserVars, scenario, concurrency, disk, runs>>

MainStep ==
    \/ Start
    \/ EnsureDestinationFolder
    \/ StartupFails
    \/ LoadOrCreateIndex
    \/ ReadInputFolder
    \/ ProcessJsonFile
    \/ InputSaved
    \/ ExecuteDownloads
    \/ RetryFailedDownloads
    \/ RetrySweep
    \/ Finish
    \/ Stop

DownloadStep(w) ==
    \/ StatDone(w)
    \/ ClaimSaved(w)
    \/ ResultSaved(w)
    \/ HttpOtherStatus(w)
    \/ RequestTimeout(w)
    \/ Http200(w)
    \/ StreamOpened(w)
    \/ BodyData(w)
    \/ BodyFinish(w)

OtherFailure(w) ==
    \/ HttpRedirect(w)
    \/ HttpRedirectBadLocation(w)
    \/ HttpRedirectWithoutLocation(w)
    \/ RequestError(w)
    \/ WriteError(w)

Next ==
    \/ MainStep
    \/ \E w \in Workers : DownloadStep(w) \/ OtherFailure(w)

\* Stop and restart is explored with the failures that leave every kind of
\* file behind: an error status (no file) and a timeout (no file, an empty
\* one, a part of one)
NextResume ==
    \/ MainStep
    \/ \E w \in Workers : DownloadStep(w)

Init == scenario = SingleRun /\ InitState
InitResume == scenario = StopAndResume /\ InitState
InitRedirect == scenario = RedirectChains /\ InitState

Spec == Init /\ [][Next]_vars
SpecResume == InitResume /\ [][NextResume]_vars
SpecRedirect == InitRedirect /\ [][Next]_vars


\* ================================================================ the parser
\* Text is a sequence of lexical units: the characters "<", "/", ">", the
\* element name "marc:record", "x" for text that holds no markup, and, in
\* files whose categories are counted, units that each stand for one complete
\* marc:datafield element.
OpenTag == <<"<", "marc:record", ">">>
CloseTag == <<"<", "/", "marc:record", ">">>

\* String.prototype.substring, indexOf, lastIndexOf (positions from 0)
substring(str, start, end) ==
    LET clamp(i) == IF i < 0 THEN 0 ELSE IF i > Len(str) THEN Len(str) ELSE i
        from == IF clamp(start) <= clamp(end) THEN clamp(start) ELSE clamp(end)
        to == IF clamp(start) <= clamp(end) THEN clamp(end) ELSE clamp(start)
    IN  SubSeq(str, from + 1, to)
StartsAt(str, pat, i) ==
    /\ i >= 0
    /\ i + Len(pat) <= Len(str)
    /\ SubSeq(str, i + 1, i + Len(pat)) = pat
indexOf(str, pat, from) ==
    LET hits == { i \in from .. Len(str) : StartsAt(str, pat, i) }
    IN  IF hits = {} THEN -1 ELSE CHOOSE i \in hits : \A j \in hits : i <= j
lastIndexOfFindsFirst(str, pat) == indexOf(str, pat, 0)

lastIndexOf(str, pat) ==
    LET hits == { i \in 0 .. Len(str) : StartsAt(str, pat, i) }
    IN  IF hits = {} THEN -1 ELSE CHOOSE i \in hits : \A j \in hits : i >= j

\* String.prototype.trim over a text given as a sequence of characters
RECURSIVE TrimStart(_)
TrimStart(t) == IF t # <<>> /\ Head(t) = " " THEN TrimStart(Tail(t)) ELSE t
RECURSIVE TrimEnd(_)
TrimEnd(t) ==
    IF t # <<>> /\ t[Len(t)] = " " THEN TrimEnd(SubSeq(t, 1, Len(t) - 1)) ELSE t
trim(t) == TrimEnd(TrimStart(t))

\* What xml2js makes of the data field elements of the model.  A subfield
\* element without attributes comes out as a bare string: it has no $.
SubFieldOf(code, text) == [attrs |-> TRUE, code |-> code, text |-> text]
BareSubField == [attrs |-> FALSE, code |-> "", text |-> <<"o">>]
DataFieldOf(unit) ==
    CASE unit = "650a=E" ->
           [tag |-> "650", subfields |-> << SubFieldOf("a", <<"E">>) >>]
      [] unit = "650a=_E_" ->
           [tag |-> "650", subfields |-> << SubFieldOf("a", <<" ", "E", " ">>) >>]
      [] unit = "650a=__" ->
           [tag |-> "650", subfields |-> << SubFieldOf("a", <<" ", " ">>) >>]
      [] unit = "650a=constructor" ->
           [tag |-> "650", subfields |-> << SubFieldOf("a", <<"constructor">>) >>]
      [] unit = "650a=E,bare" ->
           [tag |-> "650", subfields |-> << SubFieldOf("a", <<"E">>), BareSubField >>]
      [] unit = "653a=E,b=E" ->
           [tag |-> "653", subfields |-> << SubFieldOf("a", <<"E">>),
                                            SubFieldOf("b", <<"E">>) >>]
      [] unit = "650a=F" ->
           [tag |-> "650", subfields |-> << SubFieldOf("a", <<"F">>) >>]
      [] unit = "653a=F" ->
           [tag |-> "653", subfields |-> << SubFieldOf("a", <<"F">>) >>]
      [] unit = "650bare,a=E" ->
           [tag |-> "650", subfields |-> << BareSubField, SubFieldOf("a", <<"E">>) >>]
      [] unit = "020a=1" ->
           [tag |-> "020", subfields |-> << SubFieldOf("a", <<"1">>) >>]
      [] unit = "020z=9,a=_2_" ->
           [tag |-> "020", subfields |-> << SubFieldOf("z", <<"9">>),
                                            SubFieldOf("a", <<" ", "2", " ">>) >>]
      [] unit = "020a=__" ->
           [tag |-> "020", subfields |-> << SubFieldOf("a", <<" ", " ">>) >>]
      [] unit = "020bare" ->
           [tag |-> "020", subfields |-> << BareSubField >>]
      [] unit = "100a=A" ->
           [tag |-> "100", subfields |-> << SubFieldOf("a", <<"A">>) >>]
      [] unit = "245a=A,b=B" ->
           [tag |-> "245", subfields |-> << SubFieldOf("a", <<"A">>),
                                            SubFieldOf("b", <<"B">>) >>]
      [] unit = "300a=12 p." ->
           [tag |-> "300", subfields |->
              << SubFieldOf("a", <<"x", " ", "1", "2", " ", "p", ".">>) >>]
      [] unit = "300a=3Pages" ->
           [tag |-> "300", subfields |->
              << SubFieldOf("a", <<"3", "P", "a", "g", "e", "s">>) >>]
      [] unit = "300a=x" ->
           [tag |-> "300", subfields |-> << SubFieldOf("a", <<"1", " ", "x">>) >>]
      [] unit = "300a=2 plates" ->
           [tag |-> "300", subfields |->
              << SubFieldOf("a", <<"2", " ", "p", "l", "a", "t", "e", "s">>) >>]
      [] unit = "520a=A" ->
           [tag |-> "520", subfields |-> << SubFieldOf("a", <<"A">>) >>]
      [] unit = "520b=C,a=B,a=A" ->
           [tag |-> "520", subfields |-> << SubFieldOf("b", <<"C">>),
                                            SubFieldOf("a", <<"B">>),
                                            SubFieldOf("a", <<"A">>) >>]
      [] unit = "245a=A" ->
           [tag |-> "245", subfields |-> << SubFieldOf("a", <<"A">>) >>]
      [] unit = "260b=P,c=1" ->
           [tag |-> "260", subfields |-> << SubFieldOf("b", <<"P">>),
                                            SubFieldOf("c", <<"1">>) >>]
      [] unit = "260b=Q" ->
           [tag |-> "260", subfields |-> << SubFieldOf("b", <<"Q">>) >>]
      [] unit = "260c=2" ->
           [tag |-> "260", subfields |-> << SubFieldOf("c", <<"2">>) >>]
      [] unit = "856u=book" ->
           [tag |-> "856", subfields |-> << SubFieldOf("u", <<"h", "book">>) >>]
      [] unit = "856u=cover" ->
           [tag |-> "856", subfields |-> << SubFieldOf("u", <<"h", "cover">>) >>]
      [] unit = "856u=Image2" ->
           [tag |-> "856", subfields |-> << SubFieldOf("u", <<"h", "Image", "2">>) >>]
      [] unit = "856u=thumb" ->
           [tag |-> "856", subfields |-> << SubFieldOf("u", <<"h", "thumb">>) >>]
      [] unit = "856u=doc,z=Cover" ->
           [tag |-> "856", subfields |-> << SubFieldOf("u", <<"h", "doc">>),
                                            SubFieldOf("z", <<"Cover">>) >>]
      [] unit = "856u=pdf,z=Thumb" ->
           [tag |-> "856", subfields |-> << SubFieldOf("u", <<"h", "pdf">>),
                                            SubFieldOf("z", <<"Thumb">>) >>]
FieldUnits == {"650a=E", "650a=_E_", "650a=__", "650a=constructor", "650a=E,bare",
               "653a=E,b=E"}
ResultUnits == {"650a=E", "650a=F", "653a=E,b=E", "653a=F"}
MapUnits == {"020a=1", "020z=9,a=_2_", "020a=__", "020bare", "100a=A", "245a=A,b=B", "300a=12 p.",
             "300a=3Pages", "300a=x", "300a=2 plates", "520a=A", "520b=C,a=B,a=A",
             "245a=A", "260b=P,c=1", "260b=Q", "260c=2", "856u=book", "856u=cover",
             "856u=Image2", "856u=thumb", "856u=doc,z=Cover", "856u=pdf,z=Thumb"}
MatchUnits == {"650a=E", "650a=E,bare", "650bare,a=E", "653a=E,b=E", "020a=1"}
DataFieldUnits == FieldUnits \cup ResultUnits \cup MapUnits \cup MatchUnits

\* parseString: a fragment with a stray "<" is not well-formed; otherwise the
\* record holds the data fields of the fragment in document order
FragmentBody(recordXml) ==
    SubSeq(recordXml, Len(OpenTag) + 1, Len(recordXml) - Len(CloseTag))
WellFormed(recordXml) ==
    \A i \in 1 .. Len(FragmentBody(recordXml)) : FragmentBody(recordXml)[i] # "<"
parseString(recordXml) ==
    LET units == SelectSeq(FragmentBody(recordXml), LAMBDA u : u \in DataFieldUnits)
    IN  [i \in 1 .. Len(units) |-> DataFieldOf(units[i])]

\* Names every JavaScript object inherits: counter[name] is truthy for them
\* although the counter has no entry of its own
InheritedNames == {<<"constructor">>}

\* if (!counter[term]) counter[term] = { count: 0 }; counter[term].count++
\* A counter is the list of its own entries in the order they were created,
\* which is the order Object.entries gives them in
CountTerm(counter, term) ==
    IF term \in InheritedNames
    THEN counter
    ELSE IF \E i \in 1 .. Len(counter) : counter[i].name = term
    THEN [i \in 1 .. Len(counter) |->
            IF counter[i].name = term
            THEN [counter[i] EXCEPT !.count = @ + 1] ELSE counter[i]]
    ELSE Append(counter, [name |-> term, count |-> 1])

\* extractSubjectTerms / extractKeywords: the loop over the subfields; reading
\* .code of a subfield that has no $ throws
RECURSIVE extractTerms(_, _)
extractTerms(counter, subFields) ==
    IF subFields = <<>> THEN [counter |-> counter, threw |-> FALSE]
    ELSE LET subField == Head(subFields)
         IN  IF ~subField.attrs THEN [counter |-> counter, threw |-> TRUE]
             ELSE IF subField.code = "a" /\ subField.text # <<>>
                     /\ trim(subField.text) # <<>>
             THEN extractTerms(CountTerm(counter, trim(subField.text)), Tail(subFields))
             ELSE extractTerms(counter, Tail(subFields))

\* The parser's counters
Counters(P) == [subjectTerms |-> P.subjectTerms, keywords |-> P.keywords,
                totalRecords |-> P.totalRecords]

\* extractCategories: the loop over the data fields
RECURSIVE extractCategories(_, _)
extractCategories(P, dataFields) ==
    IF dataFields = <<>> THEN [P |-> P, threw |-> FALSE]
    ELSE LET dataField == Head(dataFields)
         IN  CASE dataField.tag = "650" ->
                    LET r == extractTerms(P.subjectTerms, dataField.subfields)
                        P1 == [P EXCEPT !.subjectTerms = r.counter]
                    IN  IF r.threw THEN [P |-> P1, threw |-> TRUE]
                        ELSE extractCategories(P1, Tail(dataFields))
               [] dataField.tag = "653" ->
                    LET r == extractTerms(P.keywords, dataField.subfields)
                        P1 == [P EXCEPT !.keywords = r.counter]
                    IN  IF r.threw THEN [P |-> P1, threw |-> TRUE]
                        ELSE extractCategories(P1, Tail(dataFields))
               [] OTHER -> extractCategories(P, Tail(dataFields))

\* processRecord: a parse error is logged; an exception of the callback is
\* caught and logged; otherwise the record is counted
processRecord(P, recordXml) ==
    LET P1 == IF ~WellFormed(recordXml) THEN P
              ELSE LET r == extractCategories(P, parseString(recordXml))
                   IN  IF r.threw THEN r.P
                       ELSE [r.P EXCEPT !.totalRecords = @ + 1]
    IN  [P1 EXCEPT !.dispatched =
            Append(@, [xml |-> recordXml, counted |-> P1.totalRecords > P.totalRecords,
                       after |-> Counters(P1)])]

\* processXmlFile, 'data' handler: does the loop over the closing markers go on
ScanEndsAfterFirst(recordEnd, recordStart) == recordEnd # -1 /\ recordStart = 0

ScanGoesOn(recordEnd, recordStart) == recordEnd # -1

\* if (recordStartTag !== -1)
hasStartTagAlways(recordStartTag) == TRUE

hasStartTag(recordStartTag) == recordStartTag # -1

\* buffer = buffer.substring(recordStart)
remainingNothing(buf, recordStart) == <<>>

remaining(buf, recordStart) == substring(buf, recordStart, Len(buf))

\* processXmlFile, 'data' handler: the while loop
RECURSIVE ScanRecords(_, _, _)
ScanRecords(P, buf, recordStart) ==
    LET recordEnd == indexOf(buf, CloseTag, recordStart)
    IN  IF ScanGoesOn(recordEnd, recordStart)
        THEN LET recordXml == substring(buf, recordStart, recordEnd + Len(CloseTag))
                 recordStartTag == lastIndexOf(recordXml, OpenTag)
                 P1 == IF hasStartTag(recordStartTag)
                       THEN [processRecord(P, substring(recordXml, recordStartTag,
                                                        Len(recordXml)))
                                EXCEPT !.recordCount = @ + 1]
                       ELSE P
             IN  ScanRecords(P1, buf, recordEnd + Len(CloseTag))
        ELSE [P EXCEPT !.buffer = remaining(buf, recordStart)]

\* processXmlFile, 'end' handler: what has been dispatched when it returns
OnEndFlushesBuffer(d, buf) ==
    Append(d, [xml |-> buf, counted |-> FALSE, after |-> Counters(
                 [subjectTerms |-> subjectTerms, keywords |-> keywords,
                  totalRecords |-> totalRecords])])

OnEnd(d, buf) == d

\* ------------------------------------------------------------ the record mapper
\* null (a text no subfield holds) and a null page count
Null == <<"(null)">>
NoPages == -1
Truthy(text) == text # Null /\ text # <<>>

\* The BookRecord convertToBookRecord starts from
DefaultBookRecord ==
    [title |-> <<>>, language |-> Null, authors |-> <<>>, nbPages |-> NoPages,
     publicationDate |-> Null, bookUrl |-> <<>>, ISBN |-> Null, description |-> Null,
     publisher |-> <<>>, licence |-> Null, thumnail |-> Null]

\* String.prototype.toLowerCase and includes
lowerCase(c) ==
    CASE c = "P" -> "p"
      [] c = "Cover" -> "cover"
      [] c = "Image" -> "image"
      [] c = "Thumb" -> "thumb"
      [] OTHER -> c
toLowerCase(t) == [i \in 1 .. Len(t) |-> lowerCase(t[i])]
includes(t, word) == indexOf(t, word, 0) # -1

\* parseInt(digits, 10)
DigitValue(d) ==
    CASE d = "0" -> 0 [] d = "1" -> 1 [] d = "2" -> 2 [] d = "3" -> 3 [] d = "4" -> 4
      [] d = "5" -> 5 [] d = "6" -> 6 [] d = "7" -> 7 [] d = "8" -> 8 [] d = "9" -> 9
RECURSIVE parseInt(_)
parseInt(ds) ==
    IF ds = <<>> THEN 0
    ELSE 10 * parseInt(SubSeq(ds, 1, Len(ds) - 1)) + DigitValue(ds[Len(ds)])

\* physicalDesc.match(/(\d+)\s*(?:p\.?|pages?)/i): the leftmost digit run that
\* white space and then a p follows; the digits matched, or <<>> for no match
RunEnd(t, i) ==
    CHOOSE e \in i .. Len(t) :
        /\ \A j \in i .. e : t[j] \in Digits
        /\ e = Len(t) \/ t[e + 1] \notin Digits
AfterSpaces(t, j) ==
    CHOOSE k \in j .. Len(t) + 1 :
        /\ \A m \in j .. k - 1 : t[m] = " "
        /\ k = Len(t) + 1 \/ t[k] # " "
MatchesAt(t, i) ==
    /\ t[i] \in Digits
    /\ LET k == AfterSpaces(t, RunEnd(t, i) + 1)
       IN  k <= Len(t) /\ lowerCase(t[k]) = "p"
pageMatch(t) ==
    LET starts == { i \in 1 .. Len(t) : MatchesAt(t, i) }
    IN  IF starts = {} THEN <<>>
        ELSE LET i == CHOOSE x \in starts : \A y \in starts : x <= y
             IN  SubSeq(t, i, RunEnd(t, i))

\* The loops over the subfields of one data field.  Each gives the book
\* record (or the locals) it ends with and whether subField.$.code threw on
\* a subfield without attributes.
Codes(subField, codes) == subField.code \in codes /\ subField.text # <<>>

\* case '020': if (!bookRecord.ISBN)
hasISBNNever(b) == FALSE

hasISBN(b) == Truthy(b.ISBN)
RECURSIVE isbnLoop(_, _)
isbnLoop(b, subFields) ==
    IF subFields = <<>> THEN [b |-> b, threw |-> FALSE]
    ELSE IF ~Head(subFields).attrs THEN [b |-> b, threw |-> TRUE]
    ELSE IF Codes(Head(subFields), {"a"})
    THEN [b |-> [b EXCEPT !.ISBN = trim(Head(subFields).text)], threw |-> FALSE]
    ELSE isbnLoop(b, Tail(subFields))

RECURSIVE authorsLoop(_, _)
authorsLoop(b, subFields) ==
    IF subFields = <<>> THEN [b |-> b, threw |-> FALSE]
    ELSE IF ~Head(subFields).attrs THEN [b |-> b, threw |-> TRUE]
    ELSE LET author == trim(Head(subFields).text)
         IN  IF /\ Codes(Head(subFields), {"a"})
                /\ author # <<>>
                /\ \A i \in 1 .. Len(b.authors) : b.authors[i] # author
             THEN authorsLoop([b EXCEPT !.authors = Append(@, author)], Tail(subFields))
             ELSE authorsLoop(b, Tail(subFields))

\* case '245': subtitle ? `${title}: ${subtitle}` : title
joinTitleAlways(title, subtitle) == title \o <<":", " ">> \o subtitle

joinTitle(title, subtitle) ==
    IF subtitle # <<>> THEN title \o <<":", " ">> \o subtitle ELSE title
RECURSIVE titleLoop(_, _)
titleLoop(l, subFields) ==
    IF subFields = <<>> THEN [b |-> l, threw |-> FALSE]
    ELSE IF ~Head(subFields).attrs THEN [b |-> l, threw |-> TRUE]
    ELSE IF Codes(Head(subFields), {"a"})
    THEN titleLoop([l EXCEPT !.title = trim(Head(subFields).text)], Tail(subFields))
    ELSE IF Codes(Head(subFields), {"b"})
    THEN titleLoop([l EXCEPT !.subtitle = trim(Head(subFields).text)], Tail(subFields))
    ELSE titleLoop(l, Tail(subFields))

\* case '260': bookRecord.publisher = ... and bookRecord.publicationDate = ...
setPublicationOnce(b, key, text) == IF Truthy(b[key]) THEN b ELSE [b EXCEPT ![key] = text]

setPublication(b, key, text) == [b EXCEPT ![key] = text]
RECURSIVE publicationLoop(_, _)
publicationLoop(b, subFields) ==
    IF subFields = <<>> THEN [b |-> b, threw |-> FALSE]
    ELSE IF ~Head(subFields).attrs THEN [b |-> b, threw |-> TRUE]
    ELSE IF Codes(Head(subFields), {"b"})
    THEN publicationLoop(setPublication(b, "publisher", trim(Head(subFields).text)),
                         Tail(subFields))
    ELSE IF Codes(Head(subFields), {"c"})
    THEN publicationLoop(setPublication(b, "publicationDate", trim(Head(subFields).text)),
                         Tail(subFields))
    ELSE publicationLoop(b, Tail(subFields))

\* case '300': the first subfield a with a text is matched, whatever nbPages is
RECURSIVE pagesLoop(_, _)
pagesLoop(b, subFields) ==
    IF subFields = <<>> THEN [b |-> b, threw |-> FALSE]
    ELSE IF ~Head(subFields).attrs THEN [b |-> b, threw |-> TRUE]
    ELSE IF Codes(Head(subFields), {"a"})
    THEN LET m == pageMatch(trim(Head(subFields).text))
         IN  [b |-> IF m # <<>>
                    THEN [b EXCEPT !.nbPages = parseInt(m)] ELSE b,
              threw |-> FALSE]
    ELSE pagesLoop(b, Tail(subFields))

\* case '520': the first subfield a with a text is taken, whatever description is
RECURSIVE descriptionLoop(_, _)
descriptionLoop(b, subFields) ==
    IF subFields = <<>> THEN [b |-> b, threw |-> FALSE]
    ELSE IF ~Head(subFields).attrs THEN [b |-> b, threw |-> TRUE]
    ELSE IF Codes(Head(subFields), {"a"})
    THEN [b |-> [b EXCEPT !.description = trim(Head(subFields).text)], threw |-> FALSE]
    ELSE descriptionLoop(b, Tail(subFields))

RECURSIVE licenceLoop(_, _)
licenceLoop(b, subFields) ==
    IF subFields = <<>> THEN [b |-> b, threw |-> FALSE]
    ELSE IF ~Head(subFields).attrs THEN [b |-> b, threw |-> TRUE]
    ELSE IF Codes(Head(subFields), {"a", "f"}) /\ ~Truthy(b.licence)
    THEN licenceLoop([b EXCEPT !.licence = trim(Head(subFields).text)], Tail(subFields))
    ELSE licenceLoop(b, Tail(subFields))

RECURSIVE languageLoop(_, _)
languageLoop(b, subFields) ==
    IF subFields = <<>> THEN [b |-> b, threw |-> FALSE]
    ELSE IF ~Head(subFields).attrs THEN [b |-> b, threw |-> TRUE]
    ELSE IF Codes(Head(subFields), {"a"})
    THEN [b |-> [b EXCEPT !.language = trim(Head(subFields).text)], threw |-> FALSE]
    ELSE languageLoop(b, Tail(subFields))

RECURSIVE urlLoop(_, _)
urlLoop(l, subFields) ==
    IF subFields = <<>> THEN [b |-> l, threw |-> FALSE]
    ELSE IF ~Head(subFields).attrs THEN [b |-> l, threw |-> TRUE]
    ELSE IF Codes(Head(subFields), {"u"})
    THEN urlLoop([l EXCEPT !.url = trim(Head(subFields).text)], Tail(subFields))
    ELSE IF Codes(Head(subFields), {"z"})
    THEN urlLoop([l EXCEPT !.description = toLowerCase(trim(Head(subFields).text))],
                 Tail(subFields))
    ELSE urlLoop(l, Tail(subFields))

isThumbnail(url, description) ==
    \/ includes(description, <<"thumb", "nail">>)
    \/ includes(description, <<"cover">>)
    \/ includes(description, <<"image">>)
    \/ includes(toLowerCase(url), <<"thumb", "nail">>)
    \/ includes(toLowerCase(url), <<"cover">>)
    \/ includes(toLowerCase(url), <<"image">>)
    \/ includes(toLowerCase(url), <<"thumb">>)

\* convertToBookRecord, the switch on the tag of one data field
convertDataField(b, dataField) ==
    LET tag == dataField.tag
        subFields == dataField.subfields
    IN  CASE tag = "020" ->
               IF hasISBN(b) THEN [b |-> b, threw |-> FALSE]
               ELSE isbnLoop(b, subFields)
          [] tag \in {"100", "700"} -> authorsLoop(b, subFields)
          [] tag = "245" ->
               LET r == titleLoop([title |-> <<>>, subtitle |-> <<>>], subFields)
               IN  [b |-> [b EXCEPT !.title = joinTitle(r.b.title, r.b.subtitle)],
                    threw |-> r.threw]
          [] tag = "260" -> publicationLoop(b, subFields)
          [] tag = "300" -> pagesLoop(b, subFields)
          [] tag = "520" -> descriptionLoop(b, subFields)
          [] tag = "540" -> licenceLoop(b, subFields)
          [] tag = "546" -> languageLoop(b, subFields)
          [] tag = "856" ->
               LET r == urlLoop([url |-> <<>>, description |-> <<>>], subFields)
                   url == r.b.url
               IN  [b |-> IF url = <<>> THEN b
                          ELSE IF isThumbnail(url, r.b.description) /\ ~Truthy(b.thumnail)
                          THEN [b EXCEPT !.thumnail = url]
                          ELSE IF b.bookUrl = <<>>
                          THEN [b EXCEPT !.bookUrl = url]
                          ELSE b,
                    threw |-> r.threw]
          [] OTHER -> [b |-> b, threw |-> FALSE]

\* convertToBookRecord: the loop over the data fields
RECURSIVE convertFields(_, _)
convertFields(b, dataFields) ==
    IF dataFields = <<>> THEN [b |-> b, threw |-> FALSE]
    ELSE LET r == convertDataField(b, Head(dataFields))
         IN  IF r.threw THEN r ELSE convertFields(r.b, Tail(dataFields))
convertToBookRecord(record) == convertFields(DefaultBookRecord, record)

\* recordMatchesCriteria: the loop over the subfields of a data field with
\* the tag asked for, and the loop over the data fields
RECURSIVE matchSubFields(_, _)
matchSubFields(subFields, name) ==
    IF subFields = <<>> THEN [matches |-> FALSE, threw |-> FALSE]
    ELSE IF ~Head(subFields).attrs THEN [matches |-> FALSE, threw |-> TRUE]
    ELSE IF Codes(Head(subFields), {"a"}) /\ trim(Head(subFields).text) = name
    THEN [matches |-> TRUE, threw |-> FALSE]
    ELSE matchSubFields(Tail(subFields), name)
RECURSIVE recordMatchesCriteria(_, _, _)
recordMatchesCriteria(record, field, name) ==
    IF record = <<>> THEN [matches |-> FALSE, threw |-> FALSE]
    ELSE IF Head(record).tag = field
    THEN LET r == matchSubFields(Head(record).subfields, name)
         IN  IF r.matches \/ r.threw THEN r
             ELSE recordMatchesCriteria(Tail(record), field, name)
    ELSE recordMatchesCriteria(Tail(record), field, name)

\* resetCounters
resetCountersKeepsCounts(P) == P

resetCounters(P) ==
    [P EXCEPT !.subjectTerms = <<>>, !.keywords = <<>>, !.totalRecords = 0]

\* convertToSortedArray: the comparator of the sort; Array.prototype.sort is
\* stable, so an entry goes behind every entry the comparator does not put
\* behind it
compareCountAscending(a, b) == a.count - b.count

compareCount(a, b) == b.count - a.count
RECURSIVE sort(_)
sort(entries) ==
    IF entries = <<>> THEN <<>>
    ELSE LET sorted == sort(SubSeq(entries, 1, Len(entries) - 1))
             x == entries[Len(entries)]
             k == Cardinality({ i \in 1 .. Len(sorted) :
                                  \A j \in 1 .. i : compareCount(sorted[j], x) <= 0 })
         IN  SubSeq(sorted, 1, k) \o <<x>> \o SubSeq(sorted, k + 1, Len(sorted))
keepsCount(category, minCount) == category.count >= minCount
convertToSortedArray(counter, field, minCount) ==
    LET mapped == [i \in 1 .. Len(counter) |->
                     [name |-> counter[i].name, count |-> counter[i].count,
                      field |-> field]]
    IN  sort(SelectSeq(mapped, LAMBDA category : keepsCount(category, minCount)))

\* generateResults (the processing time left out)
generateResults(P, minCount) ==
    [ok |-> TRUE,
     subjectTerms |-> convertToSortedArray(P.subjectTerms, "650", minCount),
     keywords |-> convertToSortedArray(P.keywords, "653", minCount),
     totalRecords |-> P.totalRecords]
\* parseFile throws: 'Failed to parse MARC21 file'
Failed == [ok |-> FALSE, subjectTerms |-> <<>>, keywords |-> <<>>, totalRecords |-> 0]

CurParser == [buffer |-> buffer, recordCount |-> recordCount,
              subjectTerms |-> subjectTerms, keywords |-> keywords,
              totalRecords |-> totalRecords, dispatched |-> dispatched]
CommitParser(P) ==
    /\ buffer' = P.buffer
    /\ recordCount' = P.recordCount
    /\ subjectTerms' = P.subjectTerms
    /\ keywords' = P.keywords
    /\ totalRecords' = P.totalRecords
    /\ dispatched' = P.dispatched

\* ------------------------------------------------------- files to be parsed
RECURSIVE Concat(_)
Concat(ss) == IF ss = <<>> THEN <<>> ELSE Head(ss) \o Concat(Tail(ss))

\* Files for the scanner: markers, text and a stray "<" in any order
ScanPieces == { OpenTag, CloseTag, <<"x">>, <<"<">> }
ScanFiles == { Concat(ps) : ps \in SeqsUpTo(ScanPieces, MaxPieces) }

\* Files for the counters: record fragments, one after the other, of data
\* fields or a stray "<"
RecordBodies == SeqsUpTo(FieldUnits \cup {"<"}, MaxFields)
RecordFragments == { OpenTag \o b \o CloseTag : b \in RecordBodies }
TallyFiles == { Concat(fs) : fs \in SeqsUpTo(RecordFragments, MaxFragments) }

\* Files whose results are generated: records of subject terms and keywords
ResultFragments == { OpenTag \o b \o CloseTag : b \in SeqsUpTo(ResultUnits, MaxFields) }
ResultFiles == { Concat(fs) : fs \in SeqsUpTo(ResultFragments, MaxFragments) }

\* No call of the parser is in progress
Quiet == {"idle", "resolved", "rejected", "extracted", "extractFailed", "bulkDone",
          "bulkFailed"}

\* --------------------------------------------------------------- parseFile
\* parseFile: resetCounters, then processXmlFile opens the read stream
ParseFile ==
    /\ parserPc \in Quiet
    /\ Len(results) < scenario.parses
    /\ parserPc' = "reading"
    /\ stream' = scenario.file
    /\ CommitParser([resetCounters(CurParser) EXCEPT !.buffer = <<>>, !.recordCount = 0,
                                                    !.dispatched = <<>>])
    /\ UNCHANGED <<scenario, DownloadVars, ExtractVars, results>>

\* fileStream.on('data'): one chunk of the stream, of any size
Data ==
    /\ parserPc = "reading"
    /\ stream # <<>>
    /\ \E n \in 1 .. Min(MaxChunk, Len(stream)) :
          /\ stream' = SubSeq(stream, n + 1, Len(stream))
          /\ CommitParser(ScanRecords(CurParser, buffer \o SubSeq(stream, 1, n), 0))
    /\ UNCHANGED <<scenario, DownloadVars, ExtractVars, parserPc, results>>

\* fileStream.on('end'): processXmlFile resolves, parseFile returns the results
End ==
    /\ parserPc = "reading"
    /\ stream = <<>>
    /\ parserPc' = "resolved"
    /\ dispatched' = OnEnd(dispatched, buffer)
    /\ results' = Append(results, generateResults(CurParser, scenario.minCount))
    /\ UNCHANGED <<scenario, DownloadVars, ExtractVars, stream, buffer, recordCount,
                   subjectTerms, keywords, totalRecords>>

\* fileStream.on('error'): processXmlFile rejects, parseFile throws
StreamError ==
    /\ parserPc = "reading"
    /\ parserPc' = "rejected"
    /\ results' = Append(results, Failed)
    /\ UNCHANGED <<scenario, DownloadVars, ExtractVars, stream, buffer, recordCount,
                   subjectTerms, keywords, totalRecords, dispatched>>

NextParse ==
    \/ ParseFile
    \/ Data
    \/ End
    \/ StreamError

ParseOnce(files) == { [file |-> f, minCount |-> 0, parses |-> 1] : f \in files }
InitScan == scenario \in ParseOnce(ScanFiles) /\ InitState
InitTally == scenario \in ParseOnce(TallyFiles) /\ InitState
InitResults ==
    /\ scenario \in [file : ResultFiles, minCount : 0 .. MaxMinCount, parses : {MaxParses}]
    /\ InitState

SpecScan == InitScan /\ [][NextParse]_vars
SpecTally == InitTally /\ [][NextParse]_vars
SpecResults == InitResults /\ [][NextParse]_vars

\* ----------------------------------------------------------- extractRecords
TallyVars == <<subjectTerms, keywords, totalRecords, dispatched, results>>
CurExtract == [buffer |-> buffer, recordCount |-> recordCount,
               matchingRecords |-> matchingRecords,
               categoryBuckets |-> categoryBuckets, calls |-> calls]
CommitExtract(X) ==
    /\ buffer' = X.buffer
    /\ recordCount' = X.recordCount
    /\ matchingRecords' = X.matchingRecords
    /\ categoryBuckets' = X.categoryBuckets
    /\ calls' = X.calls

\* One test of a record against a category, as the history keeps it
Call(recordXml, field, name, m, pushed) ==
    [xml |-> recordXml, field |-> field, name |-> name, matches |-> m.matches,
     threw |-> m.threw, pushed |-> pushed]

\* processRecordForExtraction: a parse error is logged; an exception of the
\* callback is caught and logged; a record that matches is converted and pushed
processRecordForExtraction(X, recordXml, options) ==
    IF ~WellFormed(recordXml) THEN X
    ELSE LET record == parseString(recordXml)
             m == recordMatchesCriteria(record, options.field, options.name)
             c == convertToBookRecord(record)
             pushed == m.matches /\ ~c.threw
         IN  [X EXCEPT !.matchingRecords = IF pushed THEN Append(@, c.b) ELSE @,
                       !.calls = Append(@, Call(recordXml, options.field, options.name,
                                                m, pushed))]

\* processXmlFileForExtraction, 'data' handler: the while loop
RECURSIVE ScanForExtraction(_, _, _, _)
ScanForExtraction(X, buf, recordStart, options) ==
    LET recordEnd == indexOf(buf, CloseTag, recordStart)
    IN  IF recordEnd # -1
        THEN LET recordXml == substring(buf, recordStart, recordEnd + Len(CloseTag))
                 recordStartTag == lastIndexOf(recordXml, OpenTag)
                 X1 == IF recordStartTag # -1
                       THEN [processRecordForExtraction(
                                X, substring(recordXml, recordStartTag, Len(recordXml)),
                                options)
                                EXCEPT !.recordCount = @ + 1]
                       ELSE X
             IN  ScanForExtraction(X1, buf, recordEnd + Len(CloseTag), options)
        ELSE [X EXCEPT !.buffer = substring(buf, recordStart, Len(buf))]

\* The options of the call of extractRecords that is next or in progress
Options == scenario.extracts[Len(extracted) + 1]

\* extractRecords up to the read stream of processXmlFileForExtraction
ExtractRecords ==
    /\ parserPc \in Quiet
    /\ Len(extracted) < Len(scenario.extracts)
    /\ scenario.bulk => bulkResults # <<>>
    /\ parserPc' = "extracting"
    /\ stream' = scenario.file
    /\ CommitExtract([CurExtract EXCEPT !.buffer = <<>>, !.recordCount = 0,
                                        !.matchingRecords = <<>>, !.calls = <<>>])
    /\ UNCHANGED <<scenario, DownloadVars, TallyVars, categoryIndex, outputs, fileResults,
                   bulkResults, extracted>>

\* fileStream.on('data') of processXmlFileForExtraction
ExtractData ==
    /\ parserPc = "extracting"
    /\ stream # <<>>
    /\ \E n \in 1 .. Min(MaxChunk, Len(stream)) :
          /\ stream' = SubSeq(stream, n + 1, Len(stream))
          /\ CommitExtract(ScanForExtraction(CurExtract, buffer \o SubSeq(stream, 1, n),
                                             0, Options))
    /\ UNCHANGED <<scenario, DownloadVars, TallyVars, parserPc, categoryIndex, outputs,
                   fileResults, bulkResults, extracted>>

\* fileStream.on('end'): extractRecords returns the ExtractResults
ExtractEnd ==
    /\ parserPc = "extracting"
    /\ stream = <<>>
    /\ parserPc' = "extracted"
    /\ extracted' = Append(extracted,
                           [ok |-> TRUE, field |-> Options.field, name |-> Options.name,
                            matchingRecords |-> matchingRecords,
                            totalMatches |-> Len(matchingRecords)])
    /\ UNCHANGED <<scenario, DownloadVars, TallyVars, stream, buffer, recordCount,
                   matchingRecords, categoryBuckets, categoryIndex, outputs, fileResults,
                   bulkResults, calls>>

\* fileStream.on('error'): extractRecords throws 'Failed to extract records'
ExtractStreamError ==
    /\ parserPc = "extracting"
    /\ parserPc' = "extractFailed"
    /\ extracted' = Append(extracted,
                           [ok |-> FALSE, field |-> Options.field, name |-> Options.name,
                            matchingRecords |-> <<>>, totalMatches |-> 0])
    /\ UNCHANGED <<scenario, DownloadVars, TallyVars, stream, buffer, recordCount,
                   matchingRecords, categoryBuckets, categoryIndex, outputs, fileResults,
                   bulkResults, calls>>

NextExtract ==
    \/ ExtractRecords
    \/ ExtractData
    \/ ExtractEnd
    \/ ExtractStreamError

\* Files for the mapper: one record that matches 650 / E and holds data fields
\* of the tags the mapper reads
MapFragments ==
    { OpenTag \o <<"650a=E">> \o b \o CloseTag : b \in SeqsUpTo(MapUnits, MaxFields) }
InitMap ==
    /\ scenario \in [file : MapFragments, bulk : {FALSE},
                     extracts : { << [field |-> "650", name |-> <<"E">>] >> }]
    /\ InitState
SpecMap == InitMap /\ [][NextExtract]_vars

\* -------------------------------------------------------- bulkExtractRecords
\* The JSON file of category definitions: unreadable, some JSON value that is
\* not an array, or an array of items.  An item without a name has name <<>>
\* and one without a field has field "" (both are falsy, as '' is).
Key(field, name) == <<field, ":">> \o name
Item(name, field, count, countIsNumber) ==
    [name |-> name, field |-> field, count |-> count, countIsNumber |-> countIsNumber]

\* bulkExtractRecords: the checks on the category definitions; the message of
\* the error thrown, <<>> when there is none
validFieldAny(field) == TRUE

validField(field) == field \in {"650", "653"}
RECURSIVE validateCategories(_)
validateCategories(categories) ==
    IF categories = <<>> THEN <<>>
    ELSE LET category == Head(categories)
         IN  IF category.name = <<>> \/ category.field = "" \/ ~category.countIsNumber
             THEN <<"Each category must have name, field, and count properties">>
             ELSE IF ~validField(category.field)
             THEN <<"Invalid field">>
             ELSE validateCategories(Tail(categories))
validate(json) ==
    IF ~json.ok THEN <<"unreadable">>
    ELSE IF ~json.isArray THEN <<"JSON file must contain an array of category objects">>
    ELSE validateCategories(json.items)

\* extractAllCategoriesInSinglePass: a bucket for each category
RECURSIVE initBuckets(_, _)
initBuckets(buckets, categories) ==
    IF categories = <<>> THEN buckets
    ELSE initBuckets((Key(Head(categories).field, Head(categories).name) :> <<>>)
                        @@ buckets,
                     Tail(categories))

\* recordMatchesCategoryFilter
RECURSIVE recordMatchesCategoryFilter(_, _, _)
recordMatchesCategoryFilter(record, field, name) ==
    IF record = <<>> THEN [matches |-> FALSE, threw |-> FALSE]
    ELSE IF Head(record).tag = field
    THEN LET r == matchSubFields(Head(record).subfields, name)
         IN  IF r.matches \/ r.threw THEN r
             ELSE recordMatchesCategoryFilter(Tail(record), field, name)
    ELSE recordMatchesCategoryFilter(Tail(record), field, name)

\* processRecordForAllCategories: the loop over the categories; an exception
\* leaves the loop and is caught and logged
RECURSIVE matchCategories(_, _, _)
matchCategories(X, recordXml, categories) ==
    IF categories = <<>> THEN X
    ELSE LET category == Head(categories)
             record == parseString(recordXml)
             m == recordMatchesCategoryFilter(record, category.field, category.name)
             c == convertToBookRecord(record)
             key == Key(category.field, category.name)
             pushed == m.matches /\ ~c.threw
             X1 == [X EXCEPT !.categoryBuckets =
                                IF pushed THEN [@ EXCEPT ![key] = Append(@, c.b)] ELSE @,
                             !.calls = Append(@, Call(recordXml, category.field,
                                                      category.name, m, pushed))]
         IN  IF m.threw \/ (m.matches /\ c.threw) THEN X1
             ELSE matchCategories(X1, recordXml, Tail(categories))
processRecordForAllCategories(X, recordXml, categories) ==
    IF ~WellFormed(recordXml) THEN X
    ELSE matchCategories(X, recordXml, categories)

\* extractAllCategoriesInSinglePass, 'data' handler: the while loop
RECURSIVE ScanForAllCategories(_, _, _, _)
ScanForAllCategories(X, buf, recordStart, categories) ==
    LET recordEnd == indexOf(buf, CloseTag, recordStart)
    IN  IF recordEnd # -1
        THEN LET recordXml == substring(buf, recordStart, recordEnd + Len(CloseTag))
                 recordStartTag == lastIndexOf(recordXml, OpenTag)
                 X1 == IF recordStartTag # -1
                       THEN [processRecordForAllCategories(
                                X, substring(recordXml, recordStartTag, Len(recordXml)),
                                categories)
                                EXCEPT !.recordCount = @ + 1]
                       ELSE X
             IN  ScanForAllCategories(X1, buf, recordEnd + Len(CloseTag), categories)
        ELSE [X EXCEPT !.buffer = substring(buf, recordStart, Len(buf))]

\* category.name.replace(/[^a-zA-Z0-9]/g, '_') and the path of the output file
sanitizeName(name) ==
    [i \in 1 .. Len(name) |->
        IF name[i] \in Digits \cup Lower \cup Upper THEN name[i] ELSE "_"]
outputPath(category, records) ==
    <<"dest", "/">> \o sanitizeName(category.name)
                    \o <<"_", ToString(Len(records)), ".json">>

\* What bulkExtractRecords returns or throws
BulkFailed(message) ==
    [ok |-> FALSE, message |-> message, totalItems |-> 0, fileResults |-> <<>>]
BulkDone(categories, fr) ==
    [ok |-> TRUE, message |-> <<>>, totalItems |-> Len(categories), fileResults |-> fr]

\* bulkExtractRecords up to the read stream of extractAllCategoriesInSinglePass:
\* the JSON file is read and checked and the destination folder made
BulkExtractRecords ==
    /\ parserPc \in Quiet
    /\ scenario.bulk
    /\ bulkResults = <<>>
    /\ IF validate(scenario.json) # <<>>
       THEN /\ parserPc' = "bulkFailed"
            /\ bulkResults' = <<BulkFailed(validate(scenario.json))>>
            /\ UNCHANGED <<stream, buffer, recordCount, matchingRecords, categoryBuckets,
                           calls>>
       ELSE /\ parserPc' = "bulkReading"
            /\ stream' = scenario.file
            /\ CommitExtract([CurExtract EXCEPT
                                !.buffer = <<>>, !.recordCount = 0, !.calls = <<>>,
                                !.categoryBuckets = initBuckets(<<>>, scenario.json.items)])
            /\ UNCHANGED bulkResults
    /\ UNCHANGED <<scenario, DownloadVars, TallyVars, categoryIndex, outputs, fileResults,
                   extracted>>

\* fileStream.on('data') of extractAllCategoriesInSinglePass
BulkData ==
    /\ parserPc = "bulkReading"
    /\ stream # <<>>
    /\ \E n \in 1 .. Min(MaxChunk, Len(stream)) :
          /\ stream' = SubSeq(stream, n + 1, Len(stream))
          /\ CommitExtract(ScanForAllCategories(CurExtract,
                                                buffer \o SubSeq(stream, 1, n), 0,
                                                scenario.json.items))
    /\ UNCHANGED <<scenario, DownloadVars, TallyVars, parserPc, categoryIndex, outputs,
                   fileResults, bulkResults, extracted>>

\* fileStream.on('end'): the buckets are resolved and the loop over the
\* categories starts, or returns at once when there is no category
BulkEnd ==
    /\ parserPc = "bulkReading"
    /\ stream = <<>>
    /\ IF scenario.json.items = <<>>
       THEN /\ parserPc' = "bulkDone"
            /\ bulkResults' = <<BulkDone(scenario.json.items, fileResults)>>
            /\ UNCHANGED categoryIndex
       ELSE /\ parserPc' = "writing"
            /\ categoryIndex' = 1
            /\ UNCHANGED bulkResults
    /\ UNCHANGED <<scenario, DownloadVars, TallyVars, stream, buffer, recordCount,
                   matchingRecords, categoryBuckets, outputs, fileResults, extracted,
                   calls>>

\* fileStream.on('error'): bulkExtractRecords throws 'Bulk extraction failed'
BulkStreamError ==
    /\ parserPc = "bulkReading"
    /\ parserPc' = "bulkFailed"
    /\ bulkResults' = <<BulkFailed(<<"stream">>)>>
    /\ UNCHANGED <<scenario, DownloadVars, TallyVars, stream, buffer, recordCount,
                   matchingRecords, categoryBuckets, categoryIndex, outputs, fileResults,
                   extracted, calls>>

\* The loop over the categories goes on to the next one or returns
NextCategory(fr) ==
    IF categoryIndex = Len(scenario.json.items)
    THEN /\ parserPc' = "bulkDone"
         /\ bulkResults' = <<BulkDone(scenario.json.items, fr)>>
         /\ UNCHANGED categoryIndex
    ELSE /\ categoryIndex' = categoryIndex + 1
         /\ UNCHANGED <<parserPc, bulkResults>>

\* The body of the loop over the categories when writeFile succeeds
WriteFile ==
    /\ parserPc = "writing"
    /\ LET category == scenario.json.items[categoryIndex]
           records == categoryBuckets[Key(category.field, category.name)]
           path == outputPath(category, records)
           fr == Append(fileResults,
                        [field |-> category.field, name |-> category.name,
                         count |-> category.count, actualMatches |-> Len(records),
                         outputFile |-> path])
       IN  /\ outputs' = (path :> [field |-> category.field, name |-> category.name,
                                   matchingRecords |-> records,
                                   totalMatches |-> Len(records)]) @@ outputs
           /\ fileResults' = fr
           /\ NextCategory(fr)
    /\ UNCHANGED <<scenario, DownloadVars, TallyVars, stream, buffer, recordCount,
                   matchingRecords, categoryBuckets, extracted, calls>>

\* The body of the loop over the categories when writeFile throws
WriteFileFails ==
    /\ parserPc = "writing"
    /\ LET category == scenario.json.items[categoryIndex]
           fr == Append(fileResults,
                        [field |-> category.field, name |-> category.name,
                         count |-> category.count, actualMatches |-> 0,
                         outputFile |-> <<>>])
       IN  /\ fileResults' = fr
           /\ NextCategory(fr)
    /\ UNCHANGED <<scenario, DownloadVars, TallyVars, stream, buffer, recordCount,
                   matchingRecords, categoryBuckets, outputs, extracted, calls>>

NextBulk ==
    \/ BulkExtractRecords
    \/ BulkData
    \/ BulkEnd
    \/ BulkStreamError
    \/ WriteFile
    \/ WriteFileFails
NextMatch == NextBulk \/ NextExtract

\* Category definitions: well-formed ones, and ones with a field that is not
\* allowed, no name, no field, or a count that is not a number
GoodItems == { Item(<<"E">>, "650", c, TRUE) : c \in 0 .. MaxCount } \cup
             { Item(<<"E">>, "653", MaxCount, TRUE), Item(<<"E", "-">>, "650", MaxCount, TRUE),
               Item(<<"E", "_">>, "650", MaxCount, TRUE) }
BadItems == { Item(<<"E">>, "651", MaxCount, TRUE), Item(<<>>, "650", MaxCount, TRUE),
              Item(<<"E">>, "", MaxCount, TRUE), Item(<<"E">>, "650", 0, FALSE) }
JsonArray(items) == [ok |-> TRUE, isArray |-> TRUE, items |-> items]
JsonInputs ==
    { [ok |-> FALSE, isArray |-> FALSE, items |-> <<>>],
      [ok |-> TRUE, isArray |-> FALSE, items |-> <<>>] } \cup
    { JsonArray(items) : items \in SeqsUpTo(GoodItems \cup BadItems, MaxCategories) }

\* Files for the matcher: records of subject terms, keywords and an ISBN
MatchFragments ==
    { OpenTag \o b \o CloseTag : b \in SeqsUpTo(MatchUnits, MaxFields) }
BulkFiles == { Concat(fs) : fs \in SeqsUpTo(MatchFragments, 1) }
SecondFragments == { OpenTag \o <<u>> \o CloseTag : u \in {"650a=E", "653a=E,b=E"} }
MatchFiles == BulkFiles \cup { f \o g : f \in MatchFragments, g \in SecondFragments }

\* Bulk extraction alone, from any JSON file of category definitions
InitBulk ==
    /\ scenario \in [file : BulkFiles, bulk : {TRUE}, json : JsonInputs, extracts : {<<>>}]
    /\ InitState
SpecBulk == InitBulk /\ [][NextBulk]_vars

\* Bulk extraction from category definitions with distinct (field, name),
\* followed by one extractRecords for each of them
MatchItems == { Item(<<"E">>, "650", MaxCount, TRUE), Item(<<"E">>, "653", MaxCount, TRUE) }
DistinctItems ==
    { items \in SeqsUpTo(MatchItems, MaxCategories) :
        \A i, j \in 1 .. Len(items) : items[i] = items[j] => i = j }
OptionsOf(items) ==
    [i \in 1 .. Len(items) |-> [field |-> items[i].field, name |-> items[i].name]]
InitMatch ==
    /\ scenario \in { [file |-> f, bulk |-> TRUE, json |-> JsonArray(items),
                       extracts |-> OptionsOf(items)] :
                      f \in MatchFiles, items \in DistinctItems }
    /\ InitState
SpecMatch == InitMatch /\ [][NextMatch]_vars

\* =================================================================== claims
InRun == mainPc \in {"mainPass", "sweep", "retry", "finished"}

\* C1: in every reachable state an entry in state done has a destination file
\* that holds the complete body of a status-200 response; a partially written
\* file is never recorded as a successful download.
C1_DoneHoldsFullBody ==
    \A k \in DOMAIN index.ent :
        StateOf(index, k) = "done" => HoldsFullBody(disk[k])

\* C2: within one invocation the only changes of an entry's state are
\* pending -> downloading, downloading -> done, downloading -> error,
\* error -> pending (only in the retry sweep after the main pass) and
\* pending -> done when the target file exists and is non-empty; an entry is
\* never removed and done is never left.
C2_Listed ==
    { <<"pending", "downloading">>, <<"downloading", "done">>,
      <<"downloading", "error">>, <<"error", "pending">>, <<"pending", "done">> }

C2_OnlyListedTransitions ==
    [][ mainPc' # "stopped" =>
          \A k \in DOMAIN index.ent :
              /\ k \in DOMAIN index'.ent
              /\ LET a == StateOf(index, k)
                     b == StateOf(index', k)
                 IN  a # b =>
                       /\ <<a, b>> \in C2_Listed
                       /\ a = "error" => mainPc = "mainPass" /\ mainPc' = "sweep"
                       /\ (a = "pending" /\ b = "done") => SizeOf(disk[k]) > 0
      ]_vars

\* C2 witness: the run is over; one entry went pending -> downloading -> error
\* -> pending -> done (its file was found), another downloading -> done.
C2_Witness ==
    /\ mainPc = "finished"
    /\ \E k1, k2 \in DOMAIN index.ent :
          /\ StateOf(index, k1) = "done" /\ hist[k1].queued = 2 /\ hist[k1].marked = 1
          /\ StateOf(index, k2) = "done" /\ hist[k2].queued = 1 /\ hist[k2].marked = 1

\* C3: an entry that is done at load time and whose file exists and is
\* non-empty is never placed in the queue, never marked downloading and never
\* fetched, in the main pass or in the retry sweep.
C3_DoneAtLoad(k) ==
    /\ Has(atLoad.index, k)
    /\ StateOf(atLoad.index, k) = "done"
    /\ existsSync(atLoad.disk[k])
    /\ SizeOf(atLoad.disk[k]) > 0

C3_DoneIsNeverRefetched ==
    \A k \in AllKeys :
        C3_DoneAtLoad(k) =>
            /\ hist[k].queued = 0
            /\ hist[k].deq = 0
            /\ hist[k].marked = 0
            /\ hist[k].http = 0
            /\ k \notin SeqToSet(downloadQueue)
            /\ \A w \in Workers : workers[w].isbn # k
            /\ StateOf(index, k) = "done"
            /\ disk[k] = atLoad.disk[k]

\* C3 witness: a run that found k done with its file has fetched another key
\* and is over.
C3_Witness ==
    /\ mainPc = "finished"
    /\ \E k, k2 \in AllKeys :
          /\ C3_DoneAtLoad(k)
          /\ hist[k2].http > 0


\* C4: an entry that is done in the loaded index but whose on-disk asset is
\* missing or has zero bytes is re-attempted (queued and fetched) by a fresh
\* run: once the queue of that run is built, the entry has been placed in it.
C4_DoneWithoutAssetIsRequeued ==
    InRun =>
        \A k \in DOMAIN atLoad.index.ent :
            ( /\ StateOf(atLoad.index, k) = "done"
              /\ (~existsSync(atLoad.disk[k]) \/ SizeOf(atLoad.disk[k]) = 0) )
            => hist[k].queued > 0

\* C5: when a worker dequeues a pending entry whose target file exists with
\* size greater than zero, the entry becomes done with that file path, no
\* HTTP request is issued for it and it is not marked downloading on the way.
C5_Dequeued(k) == hist'[k].deq = hist[k].deq + 1

C5_ExistingFileIsDoneWithoutRequest ==
    [][ mainPc' # "stopped" =>
          /\ \A k \in DOMAIN index.ent :
                (StateOf(index, k) = "pending" /\ SizeOf(disk[k]) > 0) =>
                    \* dequeued: left pending, its file is looked at
                    /\ C5_Dequeued(k) =>
                          /\ StateOf(index', k) = "pending"
                          /\ \E w \in Workers :
                                workers'[w].isbn = k /\ workers'[w].pc = "stat"
                    \* no request, no downloading mark while the file is there
                    /\ hist'[k].http = hist[k].http
                    /\ hist'[k].marked = hist[k].marked
                    /\ StateOf(index', k) # "downloading"
          /\ \A w \in Workers :
                LET k == workers[w].isbn
                IN  ( /\ workers[w].pc = "stat"
                      /\ workers'[w].pc # "stat"
                      /\ SizeOf(disk[k]) > 0 )
                    => /\ StateOf(index, k) = "pending"
                       /\ StateOf(index', k) = "done"
                       /\ index'.ent[k].filePath = FilePathOf(k)
      ]_vars

\* C5 witness: an entry is done in a run that dequeued it once, never marked
\* it downloading and sent no request for it.
C5_Witness ==
    \E k \in DOMAIN index.ent :
        /\ StateOf(index, k) = "done"
        /\ index.ent[k].filePath = FilePathOf(k)
        /\ hist[k].deq = 1
        /\ hist[k].marked = 0
        /\ hist[k].http = 0
        /\ disk[k] = "complete"

\* C6: after the index is loaded from an existing file no entry is
\* downloading or error: every such entry is pending with its error message
\* cleared, and entries that were pending or done are unchanged.
C6_AfterLoad ==
    (mainPc = "readdir" /\ indexFile.status = "ok") =>
        /\ index.keys = indexFile.data.keys
        /\ DOMAIN index.ent = DOMAIN indexFile.data.ent
        /\ \A k \in DOMAIN indexFile.data.ent :
              LET was == indexFile.data.ent[k]
                  now == index.ent[k]
              IN  /\ now.downloadState \notin {"downloading", "error"}
                  /\ was.downloadState \in {"downloading", "error"} =>
                        /\ now.downloadState = "pending"
                        /\ now.errorMessage = Undefined
                        /\ now.record = was.record
                        /\ now.filePath = was.filePath
                        /\ now.downloadedAt = was.downloadedAt
                  /\ was.downloadState \in {"pending", "done"} => now = was

\* C6 witness: the file just loaded held an entry in error with its message
\* and an entry in downloading.
C6_Witness ==
    /\ mainPc = "readdir"
    /\ indexFile.status = "ok"
    /\ \E k1, k2 \in DOMAIN indexFile.data.ent :
          /\ indexFile.data.ent[k1].downloadState = "error"
          /\ indexFile.data.ent[k1].errorMessage # Undefined
          /\ indexFile.data.ent[k2].downloadState = "downloading"

\* C7: ingesting a record whose sanitized ISBN is absent from the index
\* inserts it as pending; ingesting one whose sanitized ISBN is present
\* replaces only the stored record; every other entry is unchanged; there is
\* exactly one entry per sanitized ISBN.
C7_Ingested == mainPc = "ingest" /\ filesLeft' = filesLeft - 1 /\ lastFile'.ok

\* the records of the file just read that carry key k, in file order
C7_RecordsFor(k, needsUrl) ==
    SelectSeq(lastFile'.matchingRecords,
              LAMBDA r : /\ r.ISBN # <<>>
                         /\ sanitizeISBN(r.ISBN) = k
                         /\ (needsUrl => r.bookUrl # ""))

C7_Effect(needsUrl) ==
    /\ \A k \in AllKeys :
          LET rs == C7_RecordsFor(k, needsUrl)
          IN  IF rs = <<>>
              THEN /\ Has(index', k) = Has(index, k)
                   /\ Has(index, k) => index'.ent[k] = index.ent[k]
              ELSE /\ Has(index', k)
                   /\ index'.ent[k].record = rs[Len(rs)]
                   /\ IF Has(index, k)
                      THEN /\ StateOf(index', k) = StateOf(index, k)
                           /\ index'.ent[k].filePath = index.ent[k].filePath
                           /\ index'.ent[k].errorMessage = index.ent[k].errorMessage
                           /\ index'.ent[k].downloadedAt = index.ent[k].downloadedAt
                      ELSE /\ StateOf(index', k) = "pending"
                           /\ index'.ent[k].filePath = NoPath
                           /\ index'.ent[k].errorMessage = Undefined
                           /\ index'.ent[k].downloadedAt = Undefined
    \* one entry per sanitized ISBN
    /\ SeqToSet(index'.keys) = DOMAIN index'.ent
    /\ Len(index'.keys) = Cardinality(DOMAIN index'.ent)
    /\ \A k \in DOMAIN index'.ent : sanitizeISBN(k) = k

C8_AtMostNInFlight ==
    /\ Cardinality(InFlight(workers)) <= concurrency
    /\ currentDownloads <= concurrency
    /\ currentDownloads = Cardinality(InFlight(workers))

\* C8 witness: the limit binds: as many downloads in flight as allowed while
\* the queue still holds an identifier.
C8_Witness ==
    /\ mainPc = "mainPass"
    /\ Cardinality(InFlight(workers)) = concurrency
    /\ Len(downloadQueue) > 0

\* C9: each identifier of the queue is dequeued by exactly one worker per
\* pass, no entry is held by two workers at the same time, and a worker that
\* finds the queue empty stops.
C9_Inv ==
    /\ \A w1, w2 \in InFlight(workers) :
          w1 # w2 => workers[w1].isbn # workers[w2].isbn
    /\ \A k \in AllKeys :
          /\ hist[k].deq <= 1
          /\ k \in SeqToSet(downloadQueue) => hist[k].inPass /\ hist[k].deq = 0
          /\ (hist[k].inPass /\ hist[k].deq = 0) => k \in SeqToSet(downloadQueue)
          /\ hist[k].deq = 1 => hist[k].inPass
    /\ (mainPc \in {"mainPass", "retry"} /\ AllExited) =>
          /\ downloadQueue = <<>>
          /\ \A k \in AllKeys : hist[k].inPass => hist[k].deq = 1

C9_Act ==
    \A w \in Workers :
        /\ (workers[w].pc # "exited" /\ workers'[w].pc = "exited") => downloadQueue = <<>>
        /\ ( /\ workers[w].pc = "saveResult"
             /\ workers'[w].pc # "saveResult"
             /\ mainPc' # "stopped"
             /\ downloadQueue = <<>> ) => workers'[w].pc = "exited"

C9_EachIdentifierDequeuedOnce == []C9_Inv /\ [][C9_Act]_vars

\* C9 witness: two entries were queued; one worker has stopped on the empty
\* queue while the other still holds its entry.
C9_Witness ==
    /\ mainPc = "mainPass"
    /\ \E w1, w2 \in Workers :
          /\ workers[w1].pc = "exited"
          /\ workers[w2].pc = "http"
    /\ \A k \in AllKeys : hist[k].inPass /\ hist[k].deq = 1

\* C10: index mutation and save form one critical section: two writes of the
\* index file are never in progress at the same time, and index.json never
\* holds a mix of two writes.
C10_OneWriteAtATime ==
    /\ Cardinality(Saving(workers)) + (IF mainPc = "ingestSave" THEN 1 ELSE 0) <= 1
    /\ \A w \in Workers : ~workers[w].overlap

\* C11: the retry sweep runs once per invocation, after all main-pass workers
\* have finished: every entry then in error, and no other, is reset to
\* pending and attempted once more; within one invocation an entry is queued
\* and fetched at most twice and reset from error to pending at most once.
C11_Rank(pc) ==
    CASE pc = "mainPass" -> 1 [] pc = "sweep" -> 2 [] pc = "retry" -> 3
      [] pc = "finished" -> 4 [] OTHER -> 0

C11_Inv ==
    \A k \in AllKeys :
        /\ hist[k].queued <= 2
        /\ hist[k].marked <= 2
        /\ hist[k].marked <= hist[k].queued
        /\ mainPc = "mainPass" => hist[k].queued <= 1
        /\ (mainPc = "finished" /\ hist[k].queued = 2) => hist[k].deq = 1

C11_Act ==
    /\ (C11_Rank(mainPc) > 0 /\ mainPc' # "stopped") =>
          C11_Rank(mainPc') >= C11_Rank(mainPc)
    /\ (mainPc = "mainPass" /\ mainPc' \in {"sweep", "finished"}) => AllExited
    /\ (mainPc = "mainPass" /\ mainPc' = "finished") =>
          \A k \in DOMAIN index.ent : StateOf(index, k) # "error"
    /\ (mainPc = "mainPass" /\ mainPc' = "sweep") =>
          \A k \in DOMAIN index.ent :
              IF StateOf(index, k) = "error"
              THEN /\ StateOf(index', k) = "pending"
                   /\ k \in SeqToSet(downloadQueue')
                   /\ hist[k].queued = 1
                   /\ hist'[k].queued = 2
              ELSE /\ index'.ent[k] = index.ent[k]
                   /\ k \notin SeqToSet(downloadQueue')
                   /\ hist'[k].queued = hist[k].queued
    /\ \A k \in DOMAIN index.ent :
          (mainPc' # "stopped" /\ StateOf(index, k) = "error"
             /\ StateOf(index', k) = "pending") => hist[k].queued = 1

C11_OneRetrySweep == []C11_Inv /\ [][C11_Act]_vars

\* C11 witness: the invocation is over; one entry failed in the main pass and
\* again in the retry sweep (two fetches), another failed once and was
\* downloaded by the sweep.
C11_Witness ==
    /\ mainPc = "finished"
    /\ \E k1, k2 \in DOMAIN index.ent :
          /\ StateOf(index, k1) = "error" /\ hist[k1].queued = 2 /\ hist[k1].marked = 2
          /\ StateOf(index, k2) = "done" /\ hist[k2].queued = 2 /\ hist[k2].marked = 2

\* C12: a download whose URL answers with a chain of 10 redirects followed by
\* status 200 succeeds (the entry becomes done); a chain of 11 redirects
\* fails with the redirect-limit error (the entry becomes error) and no file
\* path is recorded for it.
C12_LimitMessage == "Too many redirects (maximum 10)"

C12_Inv ==
    \A w \in Workers :
        LET k == workers[w].isbn
            n == workers[w].redirectCount
        IN  /\ workers[w].pc \in {"http", "open", "body"} => n <= 10
            /\ n <= 11
            /\ workers[w].pc = "saveResult" =>
                  /\ n = 11 =>
                        /\ StateOf(index, k) = "error"
                        /\ index.ent[k].errorMessage = C12_LimitMessage
                        /\ index.ent[k].filePath = NoPath
                  /\ ( /\ StateOf(index, k) = "error"
                        /\ index.ent[k].errorMessage = C12_LimitMessage ) => n = 11

C12_Act ==
    \A w \in Workers :
        LET k == workers[w].isbn
            n == workers[w].redirectCount
        IN  \* the body of the 200 that ends a chain of up to 10 redirects is written
            /\ ( /\ workers[w].pc = "body"
                  /\ workers'[w].pc = "saveResult"
                  /\ disk'[k] # disk[k] )
               => /\ StateOf(index', k) = "done"
                  /\ index'.ent[k].filePath = FilePathOf(k)
                  /\ workers'[w].redirectCount = n
            \* redirects 1 .. 10 are followed by a new request
            /\ ( /\ workers[w].pc = "http"
                  /\ workers'[w].redirectCount = n + 1
                  /\ n < 10 )
               => /\ workers'[w].pc = "http"
                  /\ hist'[k].http = hist[k].http + 1
                  /\ StateOf(index', k) = "downloading"
            \* redirect 11 is not
            /\ ( /\ workers[w].pc = "http"
                  /\ workers'[w].redirectCount = n + 1
                  /\ n = 10 )
               => /\ workers'[w].pc = "saveResult"
                  /\ hist'[k].http = hist[k].http
                  /\ StateOf(index', k) = "error"

C12_RedirectLimit == []C12_Inv /\ [][C12_Act]_vars

\* C12 witness: the retry sweep has downloaded, through 10 redirects and a
\* 200, an entry whose main-pass attempt had failed on the redirect limit
\* (the message is still in the index file written when the sweep claimed it).
C12_Witness ==
    \E w \in Workers :
        LET k == workers[w].isbn
        IN  /\ workers[w].pc = "saveResult"
            /\ workers[w].redirectCount = 10
            /\ StateOf(index, k) = "done"
            /\ disk[k] = "complete"
            /\ indexFile.status = "ok"
            /\ Has(indexFile.data, k)
            /\ indexFile.data.ent[k].errorMessage = C12_LimitMessage

\* C13: a failed download of one item is recorded on that entry as state
\* error with a non-empty message, changes no other entry and stops no other
\* worker; the worker that failed takes the next identifier of the queue, and
\* when a pass ends every queued identifier has been attempted.
C13_Inv ==
    /\ \A k \in DOMAIN index.ent :
          StateOf(index, k) = "error" =>
              index.ent[k].errorMessage \notin {Undefined, ""}
    /\ (mainPc \in {"mainPass", "retry"} /\ AllExited) =>
          \A k \in AllKeys :
              hist[k].inPass => hist[k].deq = 1 /\ StateOf(index, k) \in {"done", "error"}

C13_Act ==
    /\ \A k \in DOMAIN index.ent :
          ( /\ mainPc' # "stopped"
            /\ StateOf(index, k) # "error"
            /\ StateOf(index', k) = "error" )
          => /\ StateOf(index, k) = "downloading"
             /\ index'.ent[k].errorMessage \notin {Undefined, ""}
             /\ index'.ent[k].record = index.ent[k].record
             /\ index'.ent[k].filePath = index.ent[k].filePath
             /\ \A j \in DOMAIN index.ent : j # k => index'.ent[j] = index.ent[j]
             /\ DOMAIN index'.ent = DOMAIN index.ent
             /\ downloadQueue' = downloadQueue
             /\ mainPc' = mainPc
             /\ \A v \in Workers :
                   IF workers[v].isbn = k
                   THEN workers'[v].pc = "saveResult" /\ workers'[v].isbn = k
                   ELSE workers'[v].pc = workers[v].pc /\ workers'[v].isbn = workers[v].isbn
    /\ \A w \in Workers :
          ( /\ workers[w].pc = "saveResult"
            /\ workers'[w].pc # "saveResult"
            /\ mainPc' # "stopped"
            /\ StateOf(index, workers[w].isbn) = "error"
            /\ downloadQueue # <<>> )
          => /\ workers'[w].isbn = Head(downloadQueue)
             /\ workers'[w].pc \notin {"idle", "exited"}
             /\ hist'[Head(downloadQueue)].deq = 1

C13_FailureIsIsolated == []C13_Inv /\ [][C13_Act]_vars

\* C13 witness: one worker; the first identifier of the queue failed, the
\* second was requested after it and downloaded; the main pass has ended.
C13_Witness ==
    /\ mainPc = "mainPass"
    /\ AllExited
    /\ concurrency = 1
    /\ Len(index.keys) = 2
    /\ StateOf(index, index.keys[1]) = "error"
    /\ StateOf(index, index.keys[2]) = "done"
    /\ hist[index.keys[2]].http > 0

\* C14: whatever the outcome of each fetch, startDownload completes the
\* queue and the retry sweep: while a pass is under way the program or a
\* response it waits for can always take a step, and when startDownload has
\* completed the queue is empty and no entry is in state downloading.
C14_Step ==
    \/ RetryFailedDownloads
    \/ RetrySweep
    \/ Finish
    \/ \E w \in Workers : DownloadStep(w) \/ OtherFailure(w)

C14_RunsToCompletion ==
    /\ mainPc \in {"mainPass", "sweep", "retry"} => ENABLED C14_Step
    /\ mainPc = "finished" =>
          /\ downloadQueue = <<>>
          /\ \A k \in DOMAIN index.ent : StateOf(index, k) # "downloading"

\* C15: the index is saved on every state transition of an entry: every step
\* of a pass that changes an entry's state hands the whole index to
\* saveIndex; a request is sent only when the save of the downloading mark
\* has returned; every outcome of a fetch is saved; the retry sweep's reset
\* of error to pending is followed by the save of the sweep's first attempt.
C15_SavedBy(w) ==
    /\ workers'[w].pc \in SavePcs
    /\ workers'[w].content = index'

C15_Inv ==
    /\ mainPc = "sweep" => ENABLED RetrySweep
    /\ \A w \in Workers :
          /\ (Running /\ workers[w].pc = "stat") => ENABLED StatDone(w)
          /\ workers[w].pc = "saveClaim" =>
                StateOf(workers[w].content, workers[w].isbn) = "downloading"
          /\ workers[w].pc = "saveResult" =>
                StateOf(workers[w].content, workers[w].isbn) \in {"done", "error"}

C15_Act ==
    mainPc' # "stopped" =>
      \* a change of state in a pass is saved in the same synchronous block
      /\ \A k \in DOMAIN index.ent :
            (Running /\ mainPc' # "sweep" /\ StateOf(index', k) # StateOf(index, k)) =>
                \E w \in Workers : workers'[w].isbn = k /\ C15_SavedBy(w)
      \* the reset of the retry sweep is not, but the sweep's first attempt
      \* saves at once, or after the stat of a file that exists
      /\ mainPc = "sweep" =>
            /\ workers'[1].pc \in {"stat", "saveClaim"}
            /\ workers'[1].pc = "saveClaim" => C15_SavedBy(1)
      /\ \A w \in Workers :
            /\ (workers[w].pc = "stat" /\ workers'[w].pc # "stat") => C15_SavedBy(w)
            \* every outcome of a fetch is saved
            /\ ( /\ workers[w].pc \in {"http", "open", "body"}
                  /\ workers'[w].pc \notin {"http", "open", "body", "hung"} )
               => C15_SavedBy(w)
      \* a request is sent when the save of the downloading mark has returned
      /\ \A k \in DOMAIN index.ent :
            hist'[k].http > hist[k].http =>
                \E w \in Workers :
                    /\ workers[w].isbn = k
                    /\ \/ workers[w].pc = "http"
                       \/ /\ workers[w].pc = "saveClaim"
                          /\ indexFile' \in WriteDone(workers[w].content,
                                                       workers[w].overlap)

FragmentXmls == [i \in 1 .. Len(dispatched) |-> dispatched[i].xml]
CloseStarts(t) == { c \in 0 .. Len(t) : StartsAt(t, CloseTag, c) }
Highest(S) == CHOOSE x \in S : \A y \in S : x >= y
PrevEnd(t, c) ==
    Highest({0} \cup { c2 + Len(CloseTag) : c2 \in { x \in CloseStarts(t) : x < c } })
OpensFor(t, c) == { o \in PrevEnd(t, c) .. c : StartsAt(t, OpenTag, o) }
LastEnd(t) == Highest({0} \cup { c + Len(CloseTag) : c \in CloseStarts(t) })
\* the character at position p (from 1) lies in a fragment
InFragment(t, p) ==
    \E c \in CloseStarts(t) :
        /\ OpensFor(t, c) # {}
        /\ Highest(OpensFor(t, c)) < p
        /\ p <= c + Len(CloseTag)
KeptText(t) ==
    LET idx == SelectSeq([i \in 1 .. Len(t) |-> i], LAMBDA i : InFragment(t, i))
    IN  [j \in 1 .. Len(idx) |-> t[idx[j]]]
FileMinusTail(t) == SubSeq(t, 1, LastEnd(t))

\* C16 as stated: for every file and every way of splitting it into chunks,
\* the fragments dispatched, concatenated in dispatch order, are the file
\* minus its unterminated tail.
C16_ConcatIsFileMinusTail ==
    parserPc = "resolved" => Concat(FragmentXmls) = FileMinusTail(scenario.file)

\* C16 amended: for every file and every chunking, the fragments dispatched,
\* concatenated in dispatch order, are the file without the text that
\* precedes the last opening marker before each closing marker (back to the
\* previous closing marker) and without the tail that follows the last
\* closing marker; they are the file minus its tail when every character up
\* to the last closing marker lies in a fragment.
C16_ConcatIsKeptText ==
    parserPc = "resolved" =>
        /\ Concat(FragmentXmls) = KeptText(scenario.file)
        /\ (\A p \in 1 .. LastEnd(scenario.file) : InFragment(scenario.file, p)) =>
              Concat(FragmentXmls) = FileMinusTail(scenario.file)

\* C16 witness: a scan is over that dispatched a fragment, skipped the text
\* in front of it and dropped a tail that opens a record.
C16_Witness ==
    /\ parserPc = "resolved"
    /\ Len(dispatched) = 1
    /\ scenario.file[1] = "x"
    /\ lastIndexOf(buffer, OpenTag) # -1
    /\ Concat(FragmentXmls) # FileMinusTail(scenario.file)

\* A text ends with the closing marker
EndsWithClose(t) == StartsAt(t, CloseTag, Len(t) - Len(CloseTag))

\* C17: a trailing fragment that has an opening marker but no closing marker
\* is never dispatched, and the scan completes without an error.  Everything
\* dispatched runs from an opening marker to a closing marker; what is left in
\* the buffer holds no closing marker; at the end of the stream the 'end'
\* handler can run, dispatches nothing and resolves; the scan is rejected only
\* by an error of the stream itself.
C17_Inv ==
    /\ \A i \in 1 .. Len(dispatched) :
          /\ StartsAt(dispatched[i].xml, OpenTag, 0)
          /\ EndsWithClose(dispatched[i].xml)
    /\ indexOf(buffer, CloseTag, 0) = -1
    /\ (parserPc = "reading" /\ stream = <<>>) => ENABLED End
    /\ parserPc = "resolved" => Len(dispatched) = recordCount
C17_Act ==
    /\ (parserPc = "reading" /\ parserPc' = "resolved") =>
          /\ stream = <<>>
          /\ dispatched' = dispatched
          /\ recordCount' = recordCount
    /\ (parserPc = "reading" /\ parserPc' = "rejected") =>
          UNCHANGED <<stream, buffer, dispatched, recordCount>>
C17_TrailingFragmentDropped == []C17_Inv /\ [][C17_Act]_vars

\* C17 witness: a scan has resolved that dispatched one record and dropped a
\* tail made of an opening marker and text.
C17_Witness ==
    /\ parserPc = "resolved"
    /\ Len(dispatched) = 1
    /\ buffer = OpenTag \o <<"x">>

\* The fragments of a text in file order: for each closing marker that has an
\* opening marker after the previous closing marker, the text from the last
\* such opening marker to the end of the closing marker
RECURSIVE FragmentsUpTo(_, _)
FragmentsUpTo(t, c) ==
    IF c < 0 THEN <<>>
    ELSE IF StartsAt(t, CloseTag, c) /\ OpensFor(t, c) # {}
    THEN Append(FragmentsUpTo(t, c - 1),
                SubSeq(t, Highest(OpensFor(t, c)) + 1, c + Len(CloseTag)))
    ELSE FragmentsUpTo(t, c - 1)
FragmentsOf(t) == FragmentsUpTo(t, Len(t))

\* The part of the file the stream has delivered
Consumed == SubSeq(scenario.file, 1, Len(scenario.file) - Len(stream))

\* C18: fragments are dispatched in file order, one after the other, and all
\* the complete records of the buffer are dispatched before the next chunk is
\* consumed.  Between any two chunks the fragments dispatched so far are
\* exactly the fragments of the text delivered so far, in the order of the
\* file, and the buffer holds no closing marker; a chunk only appends to what
\* has been dispatched.
C18_Inv ==
    parserPc \in {"reading", "resolved"} =>
        /\ FragmentXmls = FragmentsOf(Consumed)
        /\ indexOf(buffer, CloseTag, 0) = -1
        /\ Len(buffer) <= Len(Consumed)
        /\ buffer = SubSeq(Consumed, Len(Consumed) - Len(buffer) + 1, Len(Consumed))
C18_Act ==
    parserPc = "reading" =>
        /\ Len(dispatched') >= Len(dispatched)
        /\ SubSeq(dispatched', 1, Len(dispatched)) = dispatched
C18_DispatchedInFileOrder == []C18_Inv /\ [][C18_Act]_vars

\* C18 witness: the file is two records one after the other, both dispatched,
\* in the order of the file, with nothing left in the buffer.
C18_Witness ==
    /\ parserPc = "reading"
    /\ stream = <<>>
    /\ scenario.file = OpenTag \o <<"x">> \o CloseTag \o OpenTag \o CloseTag
    /\ FragmentXmls = << OpenTag \o <<"x">> \o CloseTag, OpenTag \o CloseTag >>
    /\ buffer = <<>>

\* ----------------------------------------------------- claims: the counters
\* The counters before the i-th dispatched fragment was processed
NoCounts == [subjectTerms |-> <<>>, keywords |-> <<>>, totalRecords |-> 0]
CountersBefore(i) == IF i = 1 THEN NoCounts ELSE dispatched[i - 1].after

\* C19 as stated: a fragment that fails does not abort the scan, is skipped
\* and leaves the category counters and totalRecords exactly as they were
\* before it, and every later fragment is still processed.  A fragment that
\* is not counted in totalRecords is a skipped one; every fragment of the
\* text delivered so far has been dispatched whatever became of the ones
\* before it.
C19_SkippedFragmentLeavesCounters ==
    parserPc \in {"reading", "resolved"} =>
        /\ FragmentXmls = FragmentsOf(Consumed)
        /\ \A i \in 1 .. Len(dispatched) :
              ~dispatched[i].counted => dispatched[i].after = CountersBefore(i)

\* How often a term that is not empty occurs, white space around it removed,
\* as subfield a under a tag in the records that were parsed and counted
RECURSIVE OccurrencesInSubFields(_, _)
OccurrencesInSubFields(subFields, n) ==
    IF subFields = <<>> THEN 0
    ELSE (IF Head(subFields).attrs /\ Head(subFields).code = "a"
             /\ trim(Head(subFields).text) = n /\ n # <<>>
          THEN 1 ELSE 0) + OccurrencesInSubFields(Tail(subFields), n)
RECURSIVE OccurrencesInFields(_, _, _)
OccurrencesInFields(dataFields, f, n) ==
    IF dataFields = <<>> THEN 0
    ELSE (IF Head(dataFields).tag = f
          THEN OccurrencesInSubFields(Head(dataFields).subfields, n) ELSE 0)
         + OccurrencesInFields(Tail(dataFields), f, n)
RECURSIVE OccurrencesUpTo(_, _, _)
OccurrencesUpTo(i, f, n) ==
    IF i = 0 THEN 0
    ELSE (IF dispatched[i].counted
          THEN OccurrencesInFields(parseString(dispatched[i].xml), f, n) ELSE 0)
         + OccurrencesUpTo(i - 1, f, n)
Occurrences(f, n) == OccurrencesUpTo(Len(dispatched), f, n)

\* The texts of the model's subfields, as they are and trimmed
Texts == { <<"E">>, <<" ", "E", " ">>, <<" ", " ">>, <<"constructor">>, <<"o">>, <<>> }
Named(counter, n) == { i \in 1 .. Len(counter) : counter[i].name = n }
CountOf(counter, n) ==
    IF Named(counter, n) = {} THEN 0 ELSE counter[CHOOSE i \in Named(counter, n) : TRUE].count

\* C20 as stated: after a scan, for each field f of 650 and 653 and each text
\* n, the count of the entry (n, f) is the number of occurrences of n as
\* subfield a under tag f in the parsed records, each occurrence counted;
\* empty and white-space values make no entry; the two counters are
\* independent.  (Read with the text trimmed, as the code trims it.)
C20_CountsAreOccurrences ==
    parserPc = "resolved" =>
        \A n \in Texts :
            /\ CountOf(subjectTerms, n) = Occurrences("650", n)
            /\ CountOf(keywords, n) = Occurrences("653", n)
            /\ trim(n) = <<>> => (Named(subjectTerms, n) = {} /\ Named(keywords, n) = {})
            /\ Cardinality(Named(subjectTerms, n)) <= 1
            /\ Cardinality(Named(keywords, n)) <= 1
            /\ Named(subjectTerms, n) # {} => CountOf(subjectTerms, n) > 0
            /\ Named(keywords, n) # {} => CountOf(keywords, n) > 0

\* ------------------------------------------------------ claims: the results
LastResults == results[Len(results)]

\* A finalized list holds exactly the entries of a counter whose count is at
\* least minCount, each once, and is ordered by non-increasing count
Finalized(list, counter, field, minCount) ==
    /\ \A i \in 1 .. Len(list) :
          /\ list[i].field = field
          /\ list[i].count >= minCount
          /\ \E j \in 1 .. Len(counter) :
                counter[j].name = list[i].name /\ counter[j].count = list[i].count
    /\ \A j \in 1 .. Len(counter) :
          counter[j].count >= minCount =>
              \E i \in 1 .. Len(list) : list[i].name = counter[j].name
    /\ \A i, k \in 1 .. Len(list) : list[i].name = list[k].name => i = k
    /\ \A i \in 1 .. Len(list) - 1 : list[i].count >= list[i + 1].count

\* C21: for every set of accumulated counts and every minCount, the
\* subjectTerms and keywords lists that parseFile returns each hold exactly
\* the entries with count >= minCount and are ordered by non-increasing
\* count.
C21_FinalizedLists ==
    parserPc = "resolved" =>
        /\ LastResults.ok
        /\ Finalized(LastResults.subjectTerms, subjectTerms, "650", scenario.minCount)
        /\ Finalized(LastResults.keywords, keywords, "653", scenario.minCount)
        /\ LastResults.totalRecords = totalRecords

\* C21 witness: with minCount 2, a parse left out the subject term met first,
\* counted once, returned the one met second, counted twice, and left out the
\* only keyword.
C21_Witness ==
    /\ parserPc = "resolved"
    /\ scenario.minCount = 2
    /\ subjectTerms = << [name |-> <<"F">>, count |-> 1], [name |-> <<"E">>, count |-> 2] >>
    /\ keywords # <<>>
    /\ LastResults.keywords = <<>>
    /\ LastResults.subjectTerms = << [name |-> <<"E">>, count |-> 2, field |-> "650"] >>

\* C22: parseFile run twice on the same file with the same parser instance
\* returns the same subjectTerms, keywords and totalRecords: no count of the
\* first run is carried into the second.
C22_Inv ==
    (Len(results) = 2 /\ results[1].ok /\ results[2].ok) => results[1] = results[2]
C22_Act ==
    (parserPc # "reading" /\ parserPc' = "reading") =>
        /\ subjectTerms' = <<>>
        /\ keywords' = <<>>
        /\ totalRecords' = 0
C22_SecondRunSameResults == []C22_Inv /\ [][C22_Act]_vars

\* C22 witness: two runs on a file with subject terms and keywords have both
\* returned.
C22_Witness ==
    /\ Len(results) = 2
    /\ results[1].ok
    /\ results[2].ok
    /\ results[2].totalRecords = 2
    /\ results[2].subjectTerms # <<>>
    /\ results[2].keywords # <<>>

\* ------------------------------------------------------ claims: the matcher
\* C23: with category definitions of distinct (field, name), the bucket the
\* single pass fills for a category holds the same books, in the same order, as
\* extractRecords returns for that field and name on the same file.
BulkScanned == bulkResults # <<>> /\ bulkResults[1].ok
C23_BucketIsSeparateExtraction ==
    \A k \in 1 .. Len(extracted) :
        (BulkScanned /\ extracted[k].ok) =>
            categoryBuckets[Key(extracted[k].field, extracted[k].name)]
                = extracted[k].matchingRecords

\* C24: the matching predicate answers true exactly for a record with a data
\* field of the category's tag that has a subfield of code 'a' whose trimmed
\* text is the category name.
Qualifies(record, field, name) ==
    \E i \in 1 .. Len(record) :
        /\ record[i].tag = field
        /\ \E j \in 1 .. Len(record[i].subfields) :
              LET subField == record[i].subfields[j]
              IN  subField.attrs /\ subField.code = "a" /\ trim(subField.text) = name
C24_MatchesIffQualifies ==
    \A k \in 1 .. Len(calls) :
        calls[k].matches <=> Qualifies(parseString(calls[k].xml), calls[k].field,
                                       calls[k].name)

\* C25: when the JSON input is not an array, or a definition lacks a property
\* or has a field other than 650 and 653, bulk extraction fails with no record
\* scanned and no output file written.
Lacking(item) == item.name = <<>> \/ item.field = "" \/ ~item.countIsNumber
Rejected(json) ==
    \/ ~json.isArray
    \/ \E i \in 1 .. Len(json.items) :
          Lacking(json.items[i]) \/ json.items[i].field \notin {"650", "653"}
C25_Inv ==
    Rejected(scenario.json) =>
        /\ parserPc \in {"idle", "bulkFailed"}
        /\ calls = <<>>
        /\ recordCount = 0
        /\ categoryBuckets = <<>>
        /\ outputs = <<>>
        /\ fileResults = <<>>
C25_Act ==
    (Rejected(scenario.json) /\ parserPc = "idle" /\ parserPc' # "idle") =>
        /\ parserPc' = "bulkFailed"
        /\ stream' = <<>>
        /\ ~bulkResults'[1].ok
C25_InvalidInputFailsFirst == []C25_Inv /\ [][C25_Act]_vars

\* C25 witness: an array whose second definition has field 651 was rejected,
\* for a file that holds a record the first definition matches.
C25_Witness ==
    /\ parserPc = "bulkFailed"
    /\ scenario.json.isArray
    /\ Len(scenario.json.items) = 2
    /\ scenario.json.items[1] = Item(<<"E">>, "650", MaxCount, TRUE)
    /\ scenario.json.items[2].field = "651"
    /\ Qualifies(parseString(scenario.file), "650", <<"E">>)
    /\ bulkResults[1].message = <<"Invalid field">>
    /\ outputs = <<>>

\* C26: two definitions that differ in field or name get different output
\* files, so that every file written is there when bulk extraction returns.
C26_OneFilePerCategory ==
    parserPc = "bulkDone" =>
        \A i, j \in 1 .. Len(fileResults) :
            ( /\ i # j
              /\ fileResults[i].outputFile # <<>>
              /\ fileResults[j].outputFile # <<>>
              /\ <<fileResults[i].field, fileResults[i].name>>
                    # <<fileResults[j].field, fileResults[j].name>> )
            => fileResults[i].outputFile # fileResults[j].outputFile

\* ------------------------------------------------------- claims: the mapper
\* The record of the file, the book it was mapped to, and what a reader of
\* the record finds in it: the first subfield of a data field that has one of
\* the codes and a text, and these values over the data fields of a tag, in
\* document order
TheRecord == parseString(scenario.file)
Mapped == parserPc = "extracted" /\ Len(matchingRecords) = 1
TheBook == matchingRecords[1]
FirstValue(subFields, codes) ==
    LET hits == { i \in 1 .. Len(subFields) :
                    subFields[i].code \in codes /\ subFields[i].text # <<>> }
    IN  IF hits = {} THEN Null
        ELSE trim(subFields[CHOOSE i \in hits : \A j \in hits : i <= j].text)
ValuesOf(record, tag, codes) ==
    LET fields == SelectSeq(record, LAMBDA f : f.tag = tag)
        values == [i \in 1 .. Len(fields) |-> FirstValue(fields[i].subfields, codes)]
    IN  SelectSeq(values, LAMBDA v : v # Null)
RelevantTags == {"020", "100", "700", "245", "260", "300", "520", "540", "546", "856"}

\* C27 as stated: the mapper is total.  Every record that is parsed and
\* matches is mapped to a BookRecord without an exception, and a record with
\* no relevant data field maps to title '', bookUrl '', publisher '', no
\* authors and every other field absent.
C27_MapperIsTotal ==
    parserPc = "extracted" =>
        /\ Len(matchingRecords) = 1
        /\ (\A i \in 1 .. Len(TheRecord) : TheRecord[i].tag \notin RelevantTags) =>
              TheBook = DefaultBookRecord

\* C28 as stated: when a record has several fields 520 with a subfield a, the
\* description is the value of the first of them in document order.
C28_DescriptionIsFirst ==
    Mapped =>
        TheBook.description =
            IF ValuesOf(TheRecord, "520", {"a"}) = <<>> THEN Null
            ELSE ValuesOf(TheRecord, "520", {"a"})[1]

\* C29: when a record has several fields 020 with a subfield a, the ISBN is
\* the value of the first qualifying one in document order (the first that
\* is not blank, once trimmed), and no later field 020 changes it.
C29_IsbnIsFirst ==
    Mapped =>
        LET values == ValuesOf(TheRecord, "020", {"a"})
            filled == SelectSeq(values, LAMBDA v : v # <<>>)
        IN  TheBook.ISBN = IF filled # <<>> THEN filled[1]
                           ELSE IF values # <<>> THEN <<>> ELSE Null

\* C29 witness: a record with two fields 020, each with a subfield a with a
\* different value (the second after a subfield z), was mapped.
C29_Witness ==
    /\ Mapped
    /\ ValuesOf(TheRecord, "020", {"a"}) = << <<"1">>, <<"2">> >>
    /\ TheBook.ISBN = <<"1">>

\* C30 as stated: nbPages is the number read from the first field 300, in
\* document order, whose subfield a holds a digit run followed by "p." or
\* "page(s)"; later fields 300 never change it; without such a text it is
\* absent.  (The pattern is read as the code reads it.)
C30_PagesAreFirst ==
    Mapped =>
        LET texts == ValuesOf(TheRecord, "300", {"a"})
            found == SelectSeq(texts, LAMBDA t : pageMatch(t) # <<>>)
        IN  TheBook.nbPages = IF found = <<>> THEN NoPages
                              ELSE parseInt(pageMatch(found[1]))

\* What a reader finds under a tag and a code: the trimmed texts of the
\* subfields of that code that have a text, over the data fields of the tag in
\* document order
FieldsOf(record, tag) == SelectSeq(record, LAMBDA f : f.tag = tag)
TextsOf(subFields, code) ==
    LET hits == SelectSeq(subFields, LAMBDA sf : sf.attrs /\ sf.code = code /\ sf.text # <<>>)
    IN  [i \in 1 .. Len(hits) |-> trim(hits[i].text)]
AllTextsOf(record, tag, code) ==
    LET fields == FieldsOf(record, tag)
    IN  Concat([i \in 1 .. Len(fields) |-> TextsOf(fields[i].subfields, code)])
LastOr(values, default) == IF values = <<>> THEN default ELSE values[Len(values)]

\* C31: the publisher is the subfield b of the last field 260 that has one and
\* the publication date the subfield c of the last field 260 that has one, each
\* on its own, so that they may come from different fields 260.
C31_PublicationIsLast ==
    Mapped =>
        /\ TheBook.publisher = LastOr(AllTextsOf(TheRecord, "260", "b"), <<>>)
        /\ TheBook.publicationDate = LastOr(AllTextsOf(TheRecord, "260", "c"), Null)

\* C31 witness: a field 260 with b and c followed by a field 260 with another
\* b only: the publisher is of the second field, the date of the first.
C31_Witness ==
    /\ Mapped
    /\ AllTextsOf(TheRecord, "260", "b") = << <<"P">>, <<"Q">> >>
    /\ AllTextsOf(TheRecord, "260", "c") = << <<"1">> >>
    /\ TheBook.publisher = <<"Q">>
    /\ TheBook.publicationDate = <<"1">>

\* The fields 856 that have a URL, each with its URL, its description and
\* how the mapper classifies it
Links(record) ==
    LET fields == FieldsOf(record, "856")
        all == [i \in 1 .. Len(fields) |->
                  [url |-> LastOr(TextsOf(fields[i].subfields, "u"), <<>>),
                   description |-> LastOr(TextsOf(fields[i].subfields, "z"), <<>>)]]
    IN  SelectSeq(all, LAMBDA l : l.url # <<>>)
Classified(l) == isThumbnail(l.url, toLowerCase(l.description))

\* C32 as stated: thumbnail is the URL of the first field 856 classified as a
\* thumbnail, bookUrl the URL of the first field 856 not classified as one, and
\* a URL classified as a thumbnail is never given to bookUrl.
C32_LinkSlots ==
    Mapped =>
        LET thumbs == SelectSeq(Links(TheRecord), Classified)
            others == SelectSeq(Links(TheRecord), LAMBDA l : ~Classified(l))
        IN  /\ TheBook.thumnail = IF thumbs = <<>> THEN Null ELSE thumbs[1].url
            /\ TheBook.bookUrl = IF others = <<>> THEN <<>> ELSE others[1].url

\* C33 as stated: a field 856 is classified as a thumbnail exactly when its
\* URL or its description holds, in any case, one of "thumbnail", "cover",
\* "image", "thumb".  (Seen on records with one field 856: its URL is then the
\* thumbnail if classified so, and the bookUrl if not.)
Markers == { <<"thumb", "nail">>, <<"cover">>, <<"image">>, <<"thumb">> }
Marked(text) == \E marker \in Markers : includes(toLowerCase(text), marker)
C33_ThumbnailMarkers ==
    (Mapped /\ Len(Links(TheRecord)) = 1) =>
        LET l == Links(TheRecord)[1]
        IN  /\ (TheBook.thumnail = l.url) <=> (Marked(l.url) \/ Marked(l.description))
            /\ (TheBook.bookUrl = l.url) <=> ~(Marked(l.url) \/ Marked(l.description))

\* C34: a field 245 with a subfield a of text A and a subfield b of text B
\* gives the title "A: B", and one with a subfield a only gives A.
C34_TitleJoin ==
    (Mapped /\ FieldsOf(TheRecord, "245") # <<>>) =>
        LET fields == FieldsOf(TheRecord, "245")
            subFields == fields[Len(fields)].subfields
            A == LastOr(TextsOf(subFields, "a"), <<>>)
            B == LastOr(TextsOf(subFields, "b"), <<>>)
        IN  TheBook.title = IF B # <<>> THEN A \o <<":", " ">> \o B ELSE A

\* C34 witness: a record with a field 245 of a only and then a field 245 of a
\* and b was mapped to the title "A: B".
C34_Witness ==
    /\ Mapped
    /\ Len(FieldsOf(TheRecord, "245")) = 2
    /\ TextsOf(FieldsOf(TheRecord, "245")[1].subfields, "b") = <<>>
    /\ TextsOf(FieldsOf(TheRecord, "245")[2].subfields, "b") = << <<"B">> >>
    /\ TheBook.title = <<"A", ":", " ", "B">>

\* -------------------------------------------- claims: the scanner and chunks
\* The scan of a whole file delivered as one chunk
NoScan == [buffer |-> <<>>, recordCount |-> 0, subjectTerms |-> <<>>, keywords |-> <<>>,
           totalRecords |-> 0, dispatched |-> <<>>]
OneChunk(file) == ScanRecords(NoScan, file, 0)

\* C35: the fragments dispatched depend on the content of the file only.
\* However the stream is cut into chunks, markers cut in two included, the
\* fragments dispatched when the scan is over are those of the scan of the
\* file delivered as one chunk, and so are the same for any two chunkings.
C35_ChunkingIndependent ==
    parserPc = "resolved" =>
        /\ dispatched = OneChunk(scenario.file).dispatched
        /\ recordCount = OneChunk(scenario.file).recordCount
        /\ buffer = OneChunk(scenario.file).buffer

\* C35 witness: a record was dispatched and the chunk after it ended inside
\* the closing marker of the second record, whose rest is still to come.
C35_Witness ==
    /\ parserPc = "reading"
    /\ scenario.file = OpenTag \o <<"x">> \o CloseTag \o OpenTag \o CloseTag
    /\ Len(dispatched) = 1
    /\ buffer = OpenTag \o <<"<", "/">>
    /\ stream = <<"marc:record", ">">>

\* The closing markers of a text that have an opening marker after the
\* closing marker before them (or the start), the k-th of them, and how often
\* a marker occurs in a text
Qualifying(t) == { c \in CloseStarts(t) : OpensFor(t, c) # {} }
Nth(S, k) == CHOOSE c \in S : Cardinality({ x \in S : x < c }) = k - 1
Count(t, marker) == Cardinality({ i \in 0 .. Len(t) : StartsAt(t, marker, i) })

\* The single pass of bulk extraction over a whole file, with no category
NoExtract == [buffer |-> <<>>, recordCount |-> 0, matchingRecords |-> <<>>,
              categoryBuckets |-> <<>>, calls |-> <<>>]

\* C36: for each closing marker read, one fragment is dispatched if an opening
\* marker lies between the closing marker before it (or the start of the file)
\* and it, and none otherwise.  The fragment runs from the last such opening
\* marker through the closing marker, so it holds one opening and one closing
\* marker, and the scan goes on after the closing marker.  The scanner of the
\* single pass of bulk extraction dispatches as many.
C36_OneFragmentPerClosingMarker ==
    parserPc \in {"reading", "resolved"} =>
        LET Q == Qualifying(Consumed)
        IN  /\ Len(dispatched) = Cardinality(Q)
            /\ recordCount = Cardinality(Q)
            /\ \A k \in 1 .. Len(dispatched) :
                  LET c == Nth(Q, k)
                      xml == dispatched[k].xml
                  IN  /\ xml = SubSeq(Consumed, Highest(OpensFor(Consumed, c)) + 1,
                                      c + Len(CloseTag))
                      /\ Count(xml, OpenTag) = 1
                      /\ Count(xml, CloseTag) = 1
            /\ Len(buffer) = Len(Consumed) - LastEnd(Consumed)
            /\ ScanForAllCategories(NoExtract, Consumed, 0, <<>>).recordCount
                  = Cardinality(Q)

\* C36 witness: of three closing markers read, the first and the third have an
\* opening marker in front of them and the second has none: two fragments.
C36_Witness ==
    /\ parserPc = "resolved"
    /\ scenario.file = OpenTag \o CloseTag \o CloseTag \o OpenTag \o CloseTag
    /\ Cardinality(CloseStarts(scenario.file)) = 3
    /\ FragmentXmls = << OpenTag \o CloseTag, OpenTag \o CloseTag >>

\* The longest record fragment of a file: a fragment that is dispatched, or
\* the one the file ends in, opened and never closed
TailFragment(t) ==
    LET o == indexOf(t, OpenTag, LastEnd(t))
    IN  IF o = -1 THEN <<>> ELSE SubSeq(t, o + 1, Len(t))
Longest(S) == IF S = {} THEN 0 ELSE Highest(S)
LargestFragment(t) ==
    Longest({ Len(FragmentsOf(t)[k]) : k \in 1 .. Len(FragmentsOf(t)) }
                \cup { Len(TailFragment(t)) })

\* C37 as stated: after each chunk the buffer is the text that follows the
\* last closing marker read so far and holds no complete closing marker, and
\* for every file it is no longer than the largest record fragment plus the
\* chunk just read.
C37_Inv ==
    parserPc \in {"reading", "resolved"} =>
        /\ buffer = SubSeq(Consumed, LastEnd(Consumed) + 1, Len(Consumed))
        /\ indexOf(buffer, CloseTag, 0) = -1
C37_Act ==
    (parserPc = "reading" /\ stream' # stream) =>
        Len(buffer') <= LargestFragment(scenario.file) + (Len(stream) - Len(stream'))
C37_CarryOverBounded == []C37_Inv /\ [][C37_Act]_vars

\* ------------------------------------------------- claims: the index file
\* C38 as stated: when startDownload has returned, whatever the order in which
\* the saves of the workers ended, index.json holds the index as it is in
\* memory: every entry with its final state, file path and error message.  (No
\* save fails in these behaviours.)
C38_PersistedIsMemory ==
    mainPc = "finished" => indexFile = JsonOf(index)

\* ------------------------------------------------- claims: the buckets
\* The books of the records of a file that the matching predicate accepts for
\* a category, one for each such record, in file order
MatchingBooks(file, field, name) ==
    LET records == [k \in 1 .. Len(FragmentsOf(file)) |->
                       parseString(FragmentsOf(file)[k])]
        hits == SelectSeq(records,
                          LAMBDA r : recordMatchesCategoryFilter(r, field, name).matches)
    IN  [k \in 1 .. Len(hits) |-> convertToBookRecord(hits[k]).b]

\* C39 as stated: when the single pass is over, the bucket of each category
\* holds every record of the file that matches the category once, however
\* many of its subfields match, in file order, so that a record that matches k
\* categories is in exactly those k buckets.
C39_BucketsHoldEachMatchOnce ==
    parserPc \in {"writing", "bulkDone"} =>
        \A i \in 1 .. Len(scenario.json.items) :
            LET category == scenario.json.items[i]
            IN  categoryBuckets[Key(category.field, category.name)]
                    = MatchingBooks(scenario.file, category.field, category.name)

====
